---- MODULE Spec2Model ----
(***************************************************************************)
(* Model of the stream multiplexer of internal/yamux: two sessions, one    *)
(* created by Server() and one by Client(), joined by a duplex connection. *)
(* Each session runs its reader and writer loops (and the keepalive loop   *)
(* when enabled) next to a fixed set of caller tasks that use the public   *)
(* API: OpenStream, AcceptStream, Session.Close, Stream.Read, Stream.Write *)
(* and Stream.Close.  A step of the model is one atomic piece of the code: *)
(* a critical section, one channel operation, one unsynchronised access.   *)
(***************************************************************************)
EXTENDS Integers, Sequences, FiniteSets, TLC

\* ------------------------------------------------------------- bounds
\* bytes the callers of one session write, all streams together
MaxBytes == 2
\* OpenStream calls per session
MaxOpens == 2
\* longest payload of one Stream.Write and largest destination of one Read
MaxChunk == 2
\* capacity of the outbound channel writeCh (16 in Server/Client)
WriteChCap == 1
\* Config.AcceptBacklog (256 in NewConfig)
MaxBacklog == 1
\* keepalive ticks per session
MaxPings == 1
\* frames a foreign peer may put on the connection (SpecRaw)
MaxInject == 3
\* the largest stream ID a foreign peer names (SpecRaw)
MaxRawID == 2

\* longest XOR key (internal/xorrw)
MaxKeyLen == 2
\* largest value of a key byte
MaxKeyByte == 2
\* largest value of a data byte written through a wrapper
MaxDataByte == 1
\* bytes written through one wrapper
MaxXorBytes == 2
\* longest input of one XorReaderWriter.Write and largest destination of one
\* XorReaderWriter.Read
MaxXorChunk == 2

\* the largest flags byte a foreign peer puts in a PING
MaxFlags == 1
MaxType == 7

\* the frames a peer writes to the connection that is followed byte by byte
MaxConnFrames == 2

\* buffer harness: the sizes of the slices handed to buffer.Write, of the
\* destinations handed to buffer.Read, and the most bytes written to one
\* buffer
MinBufWrite == 50
MaxBufWrite == 100
MinBufRead == 30
MaxBufRead == 150
MaxBufBytes == 200

\* ------------------------------------------------- protocol constants
headerSize == 10
typeData == 1
typeSYN == 2
typeFIN == 3
typeACK == 4
typePING == 5
typePONG == 6
\* cap of the slice newBuffer allocates
InitialCap == 64
\* nextStreamID of a Server() session and of a Client() session
ServerFirstID == 1
ClientFirstID == 2
\* OpenStream's step of nextStreamID
IDStep == 2

Sess == {"server", "client"}
Tasks == {"t1", "t2"}
Loops == {"reader", "writer", "keepalive"}
Threads == Loops \cup Tasks

Peer(s) == IF s = "server" THEN "client" ELSE "server"

VARIABLES
    config,        \* Session.config: AcceptBacklog, EnableKeepAlive
    closed,        \* Session.closed
    closeLock,     \* Session.closeLock: the thread holding it, or "none"
    streamLock,    \* Session.streamLock: the thread holding it, or "none"
    nextStreamID,  \* Session.nextStreamID
    streams,       \* Session.streams: stream ID -> stream object
    objs,          \* the Stream objects newStream allocated, in order
    acceptCh,      \* Session.acceptCh
    writeCh,       \* Session.writeCh
    shutdown,      \* readerShutdown / writerShutdown closed
    connClosed,    \* conn.Close() was called on this end
    wire,          \* bytes on the connection, not yet read by this end
    th,            \* every thread's position and locals
    handles,       \* stream objects the API handed to the caller
    g,             \* history, per stream object
    sg,            \* history, per session
    role,          \* the API calls each caller task makes
    x,             \* the XorReaderWriter pair of internal/xorrw and its pipes
    conn           \* a connection byte by byte: what the reader loop takes of it

vars == <<config, closed, closeLock, streamLock, nextStreamID, streams, objs,
          acceptCh, writeCh, shutdown, connClosed, wire, th, handles, g, sg, role,
          x, conn>>

\* the sessions of internal/yamux run on a plain connection: no wrapper
NoXor == <<>>

\* conn where the connection is not followed byte by byte
NoConn == <<>>

\* ---------------------------------------------------------- frames
\* The 10 header bytes are one cell of the wire, each payload byte another.
hdr(type, flags, id, length) ==
    [k |-> "h", type |-> type, flags |-> flags, id |-> id, len |-> length, v |-> 0]

byteCell(b) == [k |-> "b", type |-> 0, flags |-> 0, id |-> 0, len |-> 0, v |-> b]

\* a frame whose header follows its payload
Frame_payloadFirst(type, flags, id, payload) ==
    [i \in 1..Len(payload) |-> byteCell(payload[i])]
        \o <<hdr(type, flags, id, Len(payload))>>

Frame(type, flags, id, payload) ==
    <<hdr(type, flags, id, Len(payload))>>
        \o [i \in 1..Len(payload) |-> byteCell(payload[i])]

PayloadOf(frame) == [i \in 1..(Len(frame) - 1) |-> frame[i + 1].v]

\* ---------------------------------------------------------- buffer
\* buf holds b.buf[0:wr]; len and cap are len(b.buf) and cap(b.buf).
newBuffer ==
    [buf |-> <<>>, rd |-> 0, wr |-> 0, len |-> 0, cap |-> InitialCap,
     closed |-> FALSE, signal |-> 0]

RECURSIVE growTo(_, _)
growTo(size, need) == IF size < need THEN growTo(size * 2, need) ELSE size

\* a grown buffer that starts from the zeroes of make([]byte, newSize)
bufGrowCopy_fresh(b) == [i \in 1..b.wr |-> 0]

\* copy(newBuf, b.buf[:b.wr]): what the grown storage holds up to wr
bufGrowCopy(b) == SubSeq(b.buf, 1, b.wr)

bufWrite(b, p) ==
    IF Len(p) = 0 \/ b.closed THEN b
    ELSE LET grown == IF b.wr + Len(p) > b.len
                      THEN growTo(b.cap * 2, b.wr + Len(p)) ELSE b.len
             held == IF grown = b.len THEN b.buf ELSE bufGrowCopy(b)
         IN [b EXCEPT !.buf = held \o p, !.wr = b.wr + Len(p),
                      !.len = grown,
                      !.cap = IF grown = b.len THEN b.cap ELSE grown,
                      !.signal = 1]

Min(a, b) == IF a < b THEN a ELSE b

\* buffer.Read copying from the start of the buffer instead of the cursor
bufReadData_fromStart(b, n) == SubSeq(b.buf, 1, Min(n, b.wr - b.rd))

\* the bytes one buffer.Read copies out, for a destination of n bytes
bufReadData(b, n) == SubSeq(b.buf, b.rd + 1, b.rd + Min(n, b.wr - b.rd))

bufReadNext(b, n) ==
    LET k == Min(n, b.wr - b.rd)
    IN IF b.rd + k = b.wr
       THEN [b EXCEPT !.buf = <<>>, !.rd = 0, !.wr = 0]
       ELSE [b EXCEPT !.rd = b.rd + k]

\* buffer.Close that sets the flag and sends nothing on b.signal
bufClose_silent(b) == IF b.closed THEN b ELSE [b EXCEPT !.closed = TRUE]

bufClose(b) == IF b.closed THEN b ELSE [b EXCEPT !.closed = TRUE, !.signal = 1]

\* buffer.Write that does not look at b.closed
bufWriteResult_ignoresClose(b, p) == [n |-> Len(p), err |-> "nil"]

\* what buffer.Write returns: the count and the error
bufWriteResult(b, p) ==
    IF Len(p) = 0 THEN [n |-> 0, err |-> "nil"]
    ELSE IF b.closed THEN [n |-> 0, err |-> "buffer closed"]
    ELSE [n |-> Len(p), err |-> "nil"]

\* sg[s].last: the buffer call made last directly on a buffer of s (for a
\* Read, n is the length of the destination); k alternates from call to call
NoCall == [op |-> "none", o |-> 0, n |-> 0, err |-> "nil", k |-> 0]

newStream(id) == [id |-> id, closed |-> FALSE, readBuf |-> newBuffer]

newHistory ==
    [sent |-> <<>>, recvd |-> <<>>, app |-> <<>>, eof |-> FALSE, fins |-> 0,
     by |-> "none", via |-> "none",
     finProc |-> FALSE]

\* ---------------------------------------------------------- threads
\* call and res are the API call a caller returned from last and its result
\* (for a Write, n is then the length of the input); for a loop that calls
\* Close, res is the failure that made it
Idle ==
    [pc |-> "idle", op |-> "none", obj |-> 0, frame |-> <<>>, n |-> 0,
     call |-> "none", res |-> "none"]
AtLoop == [Idle EXCEPT !.pc = "loop"]
Exited == [Idle EXCEPT !.pc = "exit"]
WantClose == [Idle EXCEPT !.pc = "close1"]

\* the error values of the package
errSessionClosed == "session closed"

\* AcceptStream reporting its timeout as a closed session
errAcceptTimeout_sessionClosed == errSessionClosed

errAcceptTimeout == "timeout waiting for new stream"

errWriteTimeout == "write timeout"
errStreamClosed == "stream closed"

\* a caller has returned from `call` with result res
Done(call, res) == [Idle EXCEPT !.call = call, !.res = res]

Returned(t) == IF t \in Tasks THEN Done("Close", "ok") ELSE Exited

\* the isRemoteClient field that Server() and Client() give the session
isRemoteClient(s) == s = "server"

FirstID(s) == IF s = "server" THEN ServerFirstID ELSE ClientFirstID

\* OpenStream stepping to the very next number
NextID_byOne(id) == id + 1

NextID(id) == id + IDStep

\* Server() and Client(): a session each over the two ends of one connection;
\* keepalive is the set of sessions configured with EnableKeepAlive
InitSession(keepalive, backlog) ==
    /\ config = [s \in Sess |-> [AcceptBacklog |-> backlog,
                                EnableKeepAlive |-> s \in keepalive]]
    /\ closed = [s \in Sess |-> FALSE]
    /\ closeLock = [s \in Sess |-> "none"]
    /\ streamLock = [s \in Sess |-> "none"]
    /\ nextStreamID = [s \in Sess |-> FirstID(s)]
    /\ streams = [s \in Sess |-> <<>>]
    /\ objs = [s \in Sess |-> <<>>]
    /\ acceptCh = [s \in Sess |-> <<>>]
    /\ writeCh = [s \in Sess |-> <<>>]
    /\ shutdown = [s \in Sess |-> [r |-> FALSE, w |-> FALSE]]
    /\ connClosed = [s \in Sess |-> FALSE]
    /\ wire = [s \in Sess |-> <<>>]
    /\ th = [s \in Sess |-> [t \in Threads |->
                IF t \in Tasks THEN Idle
                ELSE IF t = "keepalive" /\ s \notin keepalive THEN Exited
                ELSE AtLoop]]
    /\ handles = [s \in Sess |-> {}]
    /\ g = [s \in Sess |-> <<>>]
    /\ sg = [s \in Sess |-> [walks |-> 0, rsd |-> 0, wsd |-> 0, connCloses |-> 0,
                             first |-> 0, later |-> {}, lateRead |-> FALSE,
                             atClose |-> {}, late |-> FALSE, injected |-> 0,
                             pend |-> <<>>, misorder |-> FALSE, discards |-> 0,
                             dupSyn |-> {}, noops |-> {}, last |-> NoCall,
                             lateData |-> {}, eofOver |-> {}]]

\* ------------------------------------------------------ Session.write
\* a check that finds every session open
IsClosed_never(s) == FALSE

\* s.IsClosed(), evaluated by a thread that has got the close-lock
IsClosed(s) == closed[s]

\* handleSYN that leaves in the registry the stream it could not queue
unregister_kept(reg, id) == reg

\* delete(s.streams, streamID)
unregister(reg, id) == [i \in DOMAIN reg \ {id} |-> reg[i]]

\* OpenStream taking its stream out of the registry when s.write fails
afterFailedOpen_unregistered(reg, id) == unregister(reg, id)

\* OpenStream's "return nil, err": the registry is left as it is
afterFailedOpen(reg, id) == reg

\* What the caller of s.write does with its result.  handleSYN goes on to its
\* non-blocking offer to acceptCh: the stream is queued, or the registration
\* rolled back when the queue is full, and the deferred unlock runs.
writeReturn(s, t, res) ==
    LET me == th[s][t]
        ok == res = "ok"
        isSYN == me.op = "handleSYN"
        room == Len(acceptCh[s]) < config[s].AcceptBacklog
    IN /\ th' = [th EXCEPT ![s][t] =
                    IF me.op \in {"handleSYN", "handlePING"} THEN AtLoop
                    ELSE IF me.op = "keepalive"
                         THEN (IF ok THEN [AtLoop EXCEPT !.n = me.n]
                               ELSE [WantClose EXCEPT !.res = res])
                    ELSE IF me.op = "StreamWrite"
                         THEN [Done("Write", res) EXCEPT !.n = Len(me.frame) - 1]
                    ELSE Done(me.op, res)]
       /\ handles' = IF me.op = "OpenStream" /\ ok
                     THEN [handles EXCEPT ![s] = @ \cup {me.obj}] ELSE handles
       /\ g' = IF isSYN \/ ~ok THEN g
               ELSE IF me.op = "OpenStream"
                    THEN [g EXCEPT ![s][me.obj].via = "open"]
               ELSE IF me.op = "StreamWrite"
                    THEN [g EXCEPT ![s][me.obj].sent = @ \o PayloadOf(me.frame)]
               ELSE IF me.op = "StreamClose"
                    THEN [g EXCEPT ![s][me.obj].fins = @ + 1]
               ELSE g
       /\ acceptCh' = IF isSYN /\ room
                      THEN [acceptCh EXCEPT ![s] = Append(@, me.obj)] ELSE acceptCh
       /\ streams' = IF isSYN /\ ~room
                     THEN [streams EXCEPT ![s] = unregister(@, objs[s][me.obj].id)]
                     ELSE IF me.op = "OpenStream" /\ ~ok
                     THEN [streams EXCEPT ![s] =
                              afterFailedOpen(@, objs[s][me.obj].id)]
                     ELSE streams
       /\ streamLock' = IF isSYN THEN [streamLock EXCEPT ![s] = "none"]
                        ELSE streamLock

\* s.write: the IsClosed check, which takes the close-lock, and the send to
\* writeCh when it has room at once; when it is full the thread stays in the
\* select
write(s, t) ==
    /\ th[s][t].pc = "write"
    /\ closeLock[s] = "none"
    /\ IF IsClosed(s)
       THEN /\ writeReturn(s, t, errSessionClosed)
            /\ UNCHANGED <<writeCh, sg>>
       ELSE IF Len(writeCh[s]) < WriteChCap
       THEN /\ writeReturn(s, t, "ok")
            /\ writeCh' = [writeCh EXCEPT ![s] = Append(@, th[s][t].frame)]
            /\ sg' = [sg EXCEPT ![s].pend = @ \o th[s][t].frame]
       ELSE /\ th' = [th EXCEPT ![s][t].pc = "select"]
            /\ UNCHANGED <<handles, g, acceptCh, streams, streamLock, writeCh, sg>>
    /\ UNCHANGED <<config, closed, closeLock, nextStreamID, objs, shutdown,
                   connClosed, wire, role, x, conn>>

\* the blocked select of s.write: writeCh gets room and the send goes through
writeSend(s, t) ==
    /\ th[s][t].pc = "select"
    /\ Len(writeCh[s]) < WriteChCap
    /\ writeCh' = [writeCh EXCEPT ![s] = Append(@, th[s][t].frame)]
    /\ sg' = [sg EXCEPT ![s].pend = @ \o th[s][t].frame]
    /\ writeReturn(s, t, "ok")
    /\ UNCHANGED <<config, closed, closeLock, nextStreamID, objs, shutdown,
                   connClosed, wire, role, x, conn>>

\* the blocked select of s.write: ConnectionWriteTimeout passes first
writeTimeout(s, t) ==
    /\ th[s][t].pc = "select"
    /\ Len(writeCh[s]) >= WriteChCap
    /\ writeCh' = writeCh
    /\ writeReturn(s, t, errWriteTimeout)
    /\ UNCHANGED <<config, closed, closeLock, nextStreamID, objs, shutdown,
                   connClosed, wire, sg, role, x, conn>>

\* ------------------------------------------------------ Session.Close
\* a caller task is free to start the API call `kind`
Starts(s, t, kind) ==
    /\ t \in Tasks
    /\ th[s][t].pc = "idle"
    /\ kind \in role[s][t]

\* task u waits in buffer.Read on the signal of an empty buffer
Blocked(s, u) ==
    /\ th[s][u].pc = "rd_wait"
    /\ objs[s][th[s][u].obj].readBuf.rd >= objs[s][th[s][u].obj].readBuf.wr

\* Close without its test of s.closed
closeIsFirst_untested(s) == TRUE

\* whether this Close is the one that closes the session
closeIsFirst(s) == ~closed[s]

\* thread t of s returns from Close: a caller has its result, a loop leaves
\* (its record keeps the failure that made it call Close)
ReturnedBy(s, t) ==
    IF t \in Tasks THEN Returned(t) ELSE [Exited EXCEPT !.res = th[s][t].res]

\* Close up to the streamLock: the close-lock is taken and s.closed tested
CloseBegin(s, t) ==
    /\ Starts(s, t, "Close") \/ (t \in Loops /\ th[s][t].pc = "close1")
    /\ closeLock[s] = "none"
    /\ IF closeIsFirst(s)
       THEN /\ closed' = [closed EXCEPT ![s] = TRUE]
            /\ closeLock' = [closeLock EXCEPT ![s] = t]
            /\ th' = [th EXCEPT ![s][t] =
                         [Idle EXCEPT !.pc = "close2",
                                      !.res = IF t \in Loops THEN th[s][t].res
                                              ELSE "none"]]
            /\ sg' = [sg EXCEPT ![s].atClose = {u \in Tasks : Blocked(s, u)}]
       ELSE /\ th' = [th EXCEPT ![s][t] = ReturnedBy(s, t)]
            /\ sg' = [sg EXCEPT ![s].later = @ \cup {t}]
            /\ UNCHANGED <<closed, closeLock>>
    /\ UNCHANGED <<config, streamLock, nextStreamID, streams, objs, acceptCh,
                   writeCh, shutdown, connClosed, wire, handles, g, role, x, conn>>

closeStream(st) == [st EXCEPT !.closed = TRUE, !.readBuf = bufClose(st.readBuf)]

\* the registry walk: every stream the registry holds is closed
closeWalk(s) ==
    LET reg == {streams[s][id] : id \in DOMAIN streams[s]}
    IN [o \in DOMAIN objs[s] |->
           IF o \in reg THEN closeStream(objs[s][o]) ELSE objs[s][o]]

\* the rest of Close: the walk under streamLock, both shutdown channels,
\* conn.Close(), and the deferred unlock of the close-lock
CloseFinish(s, t) ==
    /\ th[s][t].pc = "close2"
    /\ streamLock[s] = "none"
    /\ objs' = [objs EXCEPT ![s] = closeWalk(s)]
    /\ shutdown' = [shutdown EXCEPT ![s] = [r |-> TRUE, w |-> TRUE]]
    /\ connClosed' = [connClosed EXCEPT ![s] = TRUE]
    /\ closeLock' = [closeLock EXCEPT ![s] = "none"]
    /\ th' = [th EXCEPT ![s][t] = ReturnedBy(s, t)]
    /\ sg' = [sg EXCEPT ![s].walks = @ + 1,
                        ![s].rsd = @ + 1,
                        ![s].wsd = @ + 1,
                        ![s].connCloses = @ + 1,
                        ![s].first = @ + 1]
    /\ UNCHANGED <<config, closed, streamLock, nextStreamID, streams, acceptCh,
                   writeCh, wire, handles, g, role, x, conn>>

\* --------------------------------------------------------- OpenStream
Register(s, id, o) ==
    [i \in DOMAIN streams[s] \cup {id} |-> IF i = id THEN o ELSE streams[s][i]]

\* OpenStream's IsClosed check
OpenStream(s, t) ==
    /\ Starts(s, t, "OpenStream")
    /\ nextStreamID[s] < FirstID(s) + IDStep * MaxOpens
    /\ closeLock[s] = "none"
    /\ th' = [th EXCEPT ![s][t] =
                 IF IsClosed(s) THEN Done("OpenStream", errSessionClosed)
                 ELSE [Idle EXCEPT !.pc = "open"]]
    /\ UNCHANGED <<config, closed, closeLock, streamLock, nextStreamID, streams,
                   objs, acceptCh, writeCh, shutdown, connClosed, wire, handles,
                   g, sg, role, x, conn>>

\* OpenStream's critical section: the ID is allocated and the stream
\* registered; the SYN header is built for s.write
OpenRegister(s, t) ==
    /\ th[s][t].pc = "open"
    /\ streamLock[s] = "none"
    /\ LET id == nextStreamID[s]
           o == Len(objs[s]) + 1
       IN /\ nextStreamID' = [nextStreamID EXCEPT ![s] = NextID(id)]
          /\ objs' = [objs EXCEPT ![s] = Append(@, newStream(id))]
          /\ g' = [g EXCEPT ![s] = Append(@, [newHistory EXCEPT !.by = "OpenStream"])]
          /\ streams' = [streams EXCEPT ![s] = Register(s, id, o)]
          /\ th' = [th EXCEPT ![s][t] =
                       [Idle EXCEPT !.pc = "write", !.op = "OpenStream", !.obj = o,
                                    !.frame = Frame(typeSYN, 0, id, <<>>)]]
    /\ UNCHANGED <<config, closed, closeLock, streamLock, acceptCh, writeCh,
                   shutdown, connClosed, wire, handles, sg, role, x, conn>>

\* ------------------------------------------------------- AcceptStream
AcceptStream(s, t) ==
    /\ Starts(s, t, "AcceptStream")
    /\ closeLock[s] = "none"
    /\ th' = [th EXCEPT ![s][t] =
                 IF IsClosed(s) THEN Done("AcceptStream", errSessionClosed)
                 ELSE [Idle EXCEPT !.pc = "accept"]]
    /\ UNCHANGED <<config, closed, closeLock, streamLock, nextStreamID, streams,
                   objs, acceptCh, writeCh, shutdown, connClosed, wire, handles,
                   g, sg, role, x, conn>>

\* the select of AcceptStream: a stream is received from acceptCh
AcceptReceive(s, t) ==
    /\ th[s][t].pc = "accept"
    /\ acceptCh[s] # <<>>
    /\ acceptCh' = [acceptCh EXCEPT ![s] = Tail(@)]
    /\ handles' = [handles EXCEPT ![s] = @ \cup {Head(acceptCh[s])}]
    /\ g' = [g EXCEPT ![s][Head(acceptCh[s])].via = "accept"]
    /\ th' = [th EXCEPT ![s][t] = Done("AcceptStream", "ok")]
    /\ UNCHANGED <<config, closed, closeLock, streamLock, nextStreamID, streams,
                   objs, writeCh, shutdown, connClosed, wire, sg, role, x, conn>>

\* the select of AcceptStream: StreamOpenTimeout passes with acceptCh empty
AcceptTimeout(s, t) ==
    /\ th[s][t].pc = "accept"
    /\ acceptCh[s] = <<>>
    /\ th' = [th EXCEPT ![s][t] = Done("AcceptStream", errAcceptTimeout)]
    /\ UNCHANGED <<config, closed, closeLock, streamLock, nextStreamID, streams,
                   objs, acceptCh, writeCh, shutdown, connClosed, wire, handles,
                   g, sg, role, x, conn>>

\* ------------------------------------------------------------- Stream
RECURSIVE SentBytes(_, _)
SentBytes(s, o) == IF o = 0 THEN 0 ELSE Len(g[s][o].sent) + SentBytes(s, o - 1)

\* The payload of a Write of n bytes: the callers number the bytes they write
\* on a session, so that a lost, repeated, misplaced or misrouted byte shows.
Payload(s, n) == [i \in 1..n |-> SentBytes(s, Len(objs[s])) + i]

\* Stream.Write up to s.session.write
StreamWrite(s, t, o, p) ==
    /\ Starts(s, t, "Write")
    /\ SentBytes(s, Len(objs[s])) + Len(p) <= MaxBytes
    /\ th' = [th EXCEPT ![s][t] =
                 IF objs[s][o].closed
                 THEN [Done("Write", errStreamClosed) EXCEPT !.n = Len(p)]
                 ELSE IF Len(p) = 0 THEN Done("Write", "ok")
                 ELSE [Idle EXCEPT !.pc = "write", !.op = "StreamWrite", !.obj = o,
                                   !.frame = Frame(typeData, 0, objs[s][o].id, p)]]
    /\ UNCHANGED <<config, closed, closeLock, streamLock, nextStreamID, streams,
                   objs, acceptCh, writeCh, shutdown, connClosed, wire, handles,
                   g, sg, role, x, conn>>

\* Stream.Close: the test of s.closed
StreamClose(s, t, o) ==
    /\ Starts(s, t, "StreamClose")
    /\ th' = [th EXCEPT ![s][t] =
                 IF objs[s][o].closed THEN Done("StreamClose", "ok")
                 ELSE [Idle EXCEPT !.pc = "sc_set", !.obj = o]]
    /\ UNCHANGED <<config, closed, closeLock, streamLock, nextStreamID, streams,
                   objs, acceptCh, writeCh, shutdown, connClosed, wire, handles,
                   g, sg, role, x, conn>>

\* Stream.Close: s.closed = true, and the FIN header is built for s.write
StreamCloseSet(s, t) ==
    /\ th[s][t].pc = "sc_set"
    /\ LET o == th[s][t].obj
       IN /\ objs' = [objs EXCEPT ![s][o].closed = TRUE]
          /\ th' = [th EXCEPT ![s][t] =
                       [Idle EXCEPT !.pc = "write", !.op = "StreamClose", !.obj = o,
                                    !.frame = Frame(typeFIN, 0, objs[s][o].id, <<>>)]]
    /\ UNCHANGED <<config, closed, closeLock, streamLock, nextStreamID, streams,
                   acceptCh, writeCh, shutdown, connClosed, wire, handles, g, sg,
                   role, x, conn>>

\* a Stream.Read that goes to the buffer whatever s.closed says
readSeesClosed_never(st) == FALSE

\* whether Stream.Read answers end-of-stream without looking at the buffer
readSeesClosed(st) == st.closed

\* one pass of buffer.Read under the mutex, for task t on stream object o with
\* a destination of n bytes: copy out, report end-of-stream, or go to wait
bufferPass(s, t, o, n) ==
    LET b == objs[s][o].readBuf
    IN IF b.rd >= b.wr
       THEN /\ th' = [th EXCEPT ![s][t] =
                         IF b.closed THEN Done("Read", "EOF")
                         ELSE [Idle EXCEPT !.pc = "rd_wait", !.obj = o, !.n = n]]
            /\ g' = [g EXCEPT ![s][o].eof = @ \/ b.closed]
            /\ objs' = objs
       ELSE /\ th' = [th EXCEPT ![s][t] = Done("Read", "ok")]
            /\ g' = [g EXCEPT ![s][o].recvd = @ \o bufReadData(b, n)]
            /\ objs' = [objs EXCEPT ![s][o].readBuf = bufReadNext(b, n)]

\* Stream.Read: the test of s.closed, then buffer.Read.  sg[s].eofOver holds
\* the streams whose Read returned at the test of s.closed while their buffer
\* held unread bytes.
StreamRead(s, t, o, n) ==
    /\ Starts(s, t, "Read")
    /\ IF readSeesClosed(objs[s][o])
       THEN /\ th' = [th EXCEPT ![s][t] = Done("Read", "EOF")]
            /\ g' = [g EXCEPT ![s][o].eof = TRUE]
            /\ objs' = objs
            /\ sg' = [sg EXCEPT ![s].eofOver =
                         IF objs[s][o].readBuf.wr > objs[s][o].readBuf.rd
                         THEN @ \cup {o} ELSE @]
       ELSE /\ bufferPass(s, t, o, n)
            /\ sg' = [sg EXCEPT ![s].lateRead =
                         @ \/ (g[s][o].finProc /\ th'[s][t].pc # "idle")]
    /\ UNCHANGED <<config, closed, closeLock, streamLock, nextStreamID, streams,
                   acceptCh, writeCh, shutdown, connClosed, wire, handles, role,
                   x, conn>>

\* buffer.Read: the receive from b.signal
bufferWake(s, t) ==
    /\ th[s][t].pc = "rd_wait"
    /\ objs[s][th[s][t].obj].readBuf.signal = 1
    /\ objs' = [objs EXCEPT ![s][th[s][t].obj].readBuf.signal = 0]
    /\ th' = [th EXCEPT ![s][t].pc = "rd"]
    /\ UNCHANGED <<config, closed, closeLock, streamLock, nextStreamID, streams,
                   acceptCh, writeCh, shutdown, connClosed, wire, handles, g, sg,
                   role, x, conn>>

\* buffer.Read: the mutex is taken again and the loop condition tested
bufferRead(s, t) ==
    /\ th[s][t].pc = "rd"
    /\ bufferPass(s, t, th[s][t].obj, th[s][t].n)
    /\ sg' = [sg EXCEPT ![s].atClose =
                 IF objs[s][th[s][t].obj].readBuf.rd >= objs[s][th[s][t].obj].readBuf.wr
                    /\ ~objs[s][th[s][t].obj].readBuf.closed
                 THEN @ ELSE @ \ {t}]
    /\ UNCHANGED <<config, closed, closeLock, streamLock, nextStreamID, streams,
                   acceptCh, writeCh, shutdown, connClosed, wire, handles, role,
                   x, conn>>

\* ------------------------------------------------------------- buffer
\* the slice of n bytes a producer writes next to the buffer of stream o
BufPayload(s, o, n) == [i \in 1..n |-> (Len(g[s][o].app) + i) % 256]

\* b.Write(p) called on the buffer of stream object o
bufferWrite(s, o, p) ==
    /\ Len(g[s][o].app) + Len(p) <= MaxBufBytes
    /\ objs' = [objs EXCEPT ![s][o].readBuf = bufWrite(@, p)]
    /\ g' = [g EXCEPT ![s][o].app =
                IF objs[s][o].readBuf.closed THEN @ ELSE @ \o p]
    /\ sg' = [sg EXCEPT ![s].last =
                 [op |-> "Write", o |-> o,
                  n |-> bufWriteResult(objs[s][o].readBuf, p).n,
                  err |-> bufWriteResult(objs[s][o].readBuf, p).err,
                  k |-> 1 - sg[s].last.k]]
    /\ UNCHANGED <<config, closed, closeLock, streamLock, nextStreamID, streams,
                   acceptCh, writeCh, shutdown, connClosed, wire, th, handles,
                   role, x, conn>>

\* b.Close() called on the buffer of stream object o
bufferClose(s, o) ==
    /\ objs' = [objs EXCEPT ![s][o].readBuf = bufClose(@)]
    /\ sg' = [sg EXCEPT ![s].last =
                 [op |-> "Close", o |-> o, n |-> 0, err |-> "nil",
                  k |-> 1 - sg[s].last.k]]
    /\ UNCHANGED <<config, closed, closeLock, streamLock, nextStreamID, streams,
                   acceptCh, writeCh, shutdown, connClosed, wire, th, handles,
                   g, role, x, conn>>

\* b.Read(p) called by task t on the buffer of stream object o, with a
\* destination of n bytes: the first pass under the mutex
bufferReadCall(s, t, o, n) ==
    /\ Starts(s, t, "BufRead")
    /\ bufferPass(s, t, o, n)
    /\ sg' = [sg EXCEPT ![s].last =
                 [op |-> "Read", o |-> o, n |-> n, err |-> "nil",
                  k |-> 1 - sg[s].last.k]]
    /\ UNCHANGED <<config, closed, closeLock, streamLock, nextStreamID, streams,
                   acceptCh, writeCh, shutdown, connClosed, wire, handles, role,
                   x, conn>>

\* ------------------------------------------------------------- reader
\* a registry lookup that never finds the ID
registered_never(reg, id) == FALSE

\* _, ok := s.streams[streamID]
registered(reg, id) == id \in DOMAIN reg

\* handleSYN up to s.write(ACK): a duplicate is ignored, else the stream is
\* registered; streamLock stays held until handleSYN returns
handleSYN(s, id) ==
    /\ wire' = [wire EXCEPT ![s] = Tail(@)]
    /\ IF registered(streams[s], id)
       THEN /\ th' = [th EXCEPT ![s]["reader"] = AtLoop]
            /\ UNCHANGED <<streamLock, streams, objs, g>>
       ELSE LET o == Len(objs[s]) + 1
            IN /\ streamLock' = [streamLock EXCEPT ![s] = "reader"]
               /\ objs' = [objs EXCEPT ![s] = Append(@, newStream(id))]
               /\ g' = [g EXCEPT ![s] = Append(@, [newHistory EXCEPT !.by = "handleSYN"])]
               /\ streams' = [streams EXCEPT ![s] = Register(s, id, o)]
               /\ th' = [th EXCEPT ![s]["reader"] =
                            [Idle EXCEPT !.pc = "write", !.op = "handleSYN",
                                         !.obj = o,
                                         !.frame = Frame(typeACK, 0, id, <<>>)]]

\* handleFIN that marks the stream and leaves its buffer open
finStream_bufferOpen(st) == [st EXCEPT !.closed = TRUE]

\* what handleFIN does to the stream it found
finStream(st) == [st EXCEPT !.closed = TRUE, !.readBuf = bufClose(st.readBuf)]

handleFIN(s, id) ==
    /\ wire' = [wire EXCEPT ![s] = Tail(@)]
    /\ th' = [th EXCEPT ![s]["reader"] = AtLoop]
    /\ IF id \in DOMAIN streams[s]
       THEN /\ objs' = [objs EXCEPT ![s][streams[s][id]] = finStream(@)]
            /\ g' = [g EXCEPT ![s][streams[s][id]].finProc = TRUE]
       ELSE UNCHANGED <<objs, g>>
    /\ UNCHANGED <<streamLock, streams>>

\* a dispatch that takes the ACK for a FIN
handleACK_asFIN(s, id) == handleFIN(s, id)

\* handleACK: "Nothing special to do"
handleACK(s, id) ==
    /\ wire' = [wire EXCEPT ![s] = Tail(@)]
    /\ th' = [th EXCEPT ![s]["reader"] = AtLoop]
    /\ UNCHANGED <<streamLock, streams, objs, g>>

handlePING(s, flags) ==
    /\ wire' = [wire EXCEPT ![s] = Tail(@)]
    /\ th' = [th EXCEPT ![s]["reader"] =
                 [Idle EXCEPT !.pc = "write", !.op = "handlePING",
                              !.frame = Frame(typePONG, flags, 0, <<>>)]]
    /\ UNCHANGED <<streamLock, streams, objs, g>>

\* handleData for an unknown stream that leaves the payload on the connection
discard_nothing(w, n) == w

\* handleData for an unknown stream: io.ReadFull into a scratch slice takes
\* the n payload bytes off the connection
discard(w, n) == SubSeq(w, n + 1, Len(w))

\* handleData: the registry lookup, io.ReadFull of the payload, and the
\* append to the stream's buffer (or the discard for an unknown stream)
handleData(s, h) ==
    /\ Len(wire[s]) >= 1 + h.len
    /\ wire' = [wire EXCEPT ![s] =
                   IF h.id \in DOMAIN streams[s]
                   THEN SubSeq(@, h.len + 2, Len(@))
                   ELSE discard(Tail(@), h.len)]
    /\ th' = [th EXCEPT ![s]["reader"] = AtLoop]
    /\ IF h.id \in DOMAIN streams[s]
       THEN LET o == streams[s][h.id]
                p == [i \in 1..h.len |-> wire[s][i + 1].v]
            IN /\ objs' = [objs EXCEPT ![s][o].readBuf = bufWrite(@, p)]
               /\ g' = [g EXCEPT ![s][o].app =
                           IF objs[s][o].readBuf.closed THEN @ ELSE @ \o p]
       ELSE UNCHANGED <<objs, g>>
    /\ UNCHANGED <<streamLock, streams>>

\* sequence w begins with sequence c
StartsWith(w, c) == Len(c) <= Len(w) /\ SubSeq(w, 1, Len(c)) = c

\* one turn of the reader loop with a header on the connection: the shutdown
\* test, io.ReadFull of the header, and the dispatch on the message type.
\* A header that io.ReadFull returned before Close ran may be dispatched after
\* it: one turn (sg[s].late) may follow the close of readerShutdown.
\* sg[s].discards counts the DATA frames taken for unregistered IDs;
\* sg[s].pend holds, oldest first, what s.write of s put on writeCh and the
\* peer's reader has not taken yet; sg[s].misorder is set when the peer's
\* reader takes anything else than the oldest of it; sg[s].dupSyn holds the
\* streams for whose ID handleSYN has ignored a SYN, sg[s].noops the types
\* of the headers taken that were an ACK, a PONG or of no known type.
\* sg[s].lateData holds the streams that were given DATA while Stream.Close
\* had marked them closed and their buffer was open.
reader(s) ==
    /\ th[s]["reader"].pc = "loop"
    /\ ~shutdown[s].r \/ ~sg[s].late
    /\ wire[s] # <<>>
    /\ streamLock[s] = "none"
    /\ LET h == Head(wire[s])
       IN IF h.type = typeData THEN handleData(s, h)
          ELSE IF h.type = typeSYN THEN handleSYN(s, h.id)
          ELSE IF h.type = typeFIN THEN handleFIN(s, h.id)
          ELSE IF h.type = typeACK THEN handleACK(s, h.id)
          ELSE IF h.type = typePING THEN handlePING(s, h.flags)
          ELSE /\ wire' = [wire EXCEPT ![s] = Tail(@)]
               /\ th' = [th EXCEPT ![s]["reader"] = AtLoop]
               /\ UNCHANGED <<streamLock, streams, objs, g>>
    /\ LET taken == SubSeq(wire[s], 1, Len(wire[s]) - Len(wire'[s]))
           h == Head(wire[s])
       IN sg' = [sg EXCEPT ![s].late = shutdown[s].r,
                           ![s].discards =
                               IF h.type = typeData /\ h.id \notin DOMAIN streams[s]
                               THEN @ + 1 ELSE @,
                           ![s].dupSyn =
                               IF h.type = typeSYN /\ h.id \in DOMAIN streams[s]
                               THEN @ \cup {streams[s][h.id]} ELSE @,
                           ![s].noops =
                               IF h.type \in {typeData, typeSYN, typeFIN, typePING}
                               THEN @ ELSE @ \cup {h.type},
                           ![s].lateData =
                               IF /\ h.type = typeData /\ h.id \in DOMAIN streams[s]
                                  /\ objs[s][streams[s][h.id]].closed
                                  /\ ~objs[s][streams[s][h.id]].readBuf.closed
                               THEN @ \cup {streams[s][h.id]} ELSE @,
                           ![Peer(s)].pend = IF StartsWith(@, taken)
                                             THEN SubSeq(@, Len(taken) + 1, Len(@))
                                             ELSE @,
                           ![Peer(s)].misorder =
                               @ \/ ~StartsWith(sg[Peer(s)].pend, taken)]
    /\ UNCHANGED <<config, closed, closeLock, nextStreamID, acceptCh, writeCh,
                   shutdown, connClosed, handles, role, x, conn>>

\* the reader loop leaves: its select finds readerShutdown closed (return), or
\* io.ReadFull fails, with an error on the session's own closed connection or
\* with io.EOF at the end of what the peer wrote before it closed (Close,
\* return, in either case)
readerStop(s) ==
    /\ th[s]["reader"].pc = "loop"
    /\ \/ /\ shutdown[s].r
          /\ th' = [th EXCEPT ![s]["reader"] = Exited]
       \/ /\ connClosed[s] \/ (wire[s] = <<>> /\ connClosed[Peer(s)])
          /\ th' = [th EXCEPT ![s]["reader"] =
                       [WantClose EXCEPT !.res = IF connClosed[s] THEN "read error"
                                                ELSE "EOF"]]
    /\ UNCHANGED <<config, closed, closeLock, streamLock, nextStreamID, streams,
                   objs, acceptCh, writeCh, shutdown, connClosed, wire, handles,
                   g, sg, role, x, conn>>

\* ------------------------------------------------------------- writer
\* a writer that empties writeCh when it leaves
leftOnShutdown_none(q) == <<>>

\* "case <-s.writerShutdown: return": what the writer leaves on writeCh
leftOnShutdown(q) == q

\* the writer's select takes the shutdown case
writerStop(s) ==
    /\ th[s]["writer"].pc = "loop"
    /\ shutdown[s].w
    /\ th' = [th EXCEPT ![s]["writer"] = Exited]
    /\ writeCh' = [writeCh EXCEPT ![s] = leftOnShutdown(@)]
    /\ UNCHANGED <<config, closed, closeLock, streamLock, nextStreamID, streams,
                   objs, acceptCh, shutdown, connClosed, wire, handles,
                   g, sg, role, x, conn>>

\* a connection that delivers the newest frame first
connWrite_newestFirst(w, f) == f \o w

\* s.conn.Write(data): the bytes follow those written before
connWrite(w, f) == w \o f

\* the writer's select takes a frame from writeCh and writes it to the
\* connection; a failed write makes the writer call Close
writer(s) ==
    /\ th[s]["writer"].pc = "loop"
    /\ writeCh[s] # <<>>
    /\ writeCh' = [writeCh EXCEPT ![s] = Tail(@)]
    /\ IF connClosed[s] \/ connClosed[Peer(s)]
       THEN /\ th' = [th EXCEPT ![s]["writer"] =
                         [WantClose EXCEPT !.res = "write error"]]
            /\ wire' = wire
       ELSE /\ th' = th
            /\ wire' = [wire EXCEPT ![Peer(s)] = connWrite(@, Head(writeCh[s]))]
    /\ UNCHANGED <<config, closed, closeLock, streamLock, nextStreamID, streams,
                   objs, acceptCh, shutdown, connClosed, handles, g, sg, role,
                   x, conn>>

\* ---------------------------------------------------------- keepalive
keepaliveStop(s) ==
    /\ th[s]["keepalive"].pc = "loop"
    /\ shutdown[s].r
    /\ th' = [th EXCEPT ![s]["keepalive"] = Exited]
    /\ UNCHANGED <<config, closed, closeLock, streamLock, nextStreamID, streams,
                   objs, acceptCh, writeCh, shutdown, connClosed, wire, handles,
                   g, sg, role, x, conn>>

\* KeepAliveInterval passes: the PING header is built and handed to s.write
keepalive(s) ==
    /\ th[s]["keepalive"].pc = "loop"
    /\ th[s]["keepalive"].n < MaxPings
    /\ th' = [th EXCEPT ![s]["keepalive"] =
                 [Idle EXCEPT !.pc = "write", !.op = "keepalive",
                              !.frame = Frame(typePING, 0, 0, <<>>),
                              !.n = th[s]["keepalive"].n + 1]]
    /\ UNCHANGED <<config, closed, closeLock, streamLock, nextStreamID, streams,
                   objs, acceptCh, writeCh, shutdown, connClosed, wire, handles,
                   g, sg, role, x, conn>>

\* ------------------------------------------------------------ network
\* the headers a peer that is not this program may send
RawFrames ==
    {Frame(type, 0, id, <<>>) : type \in {typeSYN, typeFIN}, id \in 1..MaxRawID}

\* the PING frames such a peer may send
RawPings == {Frame(typePING, flags, 0, <<>>) : flags \in 0..MaxFlags}

\* the ACK and PONG headers and the headers of no known type such a peer may
\* send
RawNoop ==
    {Frame(type, 0, id, <<>>) :
        type \in {typeACK} \cup typePONG..MaxType, id \in {0, ServerFirstID}}

\* the DATA frames such a peer may send
RawData ==
    {Frame(typeData, 0, id, [i \in 1..n |-> i]) : id \in 1..MaxRawID, n \in 1..MaxChunk}

\* the connection delivers frame f, written by such a peer, to session s
Inject(s, f) ==
    /\ sg[s].injected < MaxInject
    /\ ~connClosed[s]
    /\ wire' = [wire EXCEPT ![s] = @ \o f]
    /\ sg' = [sg EXCEPT ![s].injected = @ + 1]
    /\ UNCHANGED <<config, closed, closeLock, streamLock, nextStreamID, streams,
                   objs, acceptCh, writeCh, shutdown, connClosed, th, handles, g,
                   role, x, conn>>

\* -------------------------------------------------------------- xorrw
\* a ^ b on bytes
RECURSIVE Xor(_, _)
Xor(a, b) ==
    IF a = 0 THEN b
    ELSE IF b = 0 THEN a
    ELSE ((a + b) % 2) + 2 * Xor(a \div 2, b \div 2)

\* the two ends of a duplex connection, each wrapped in an XorReaderWriter
Ends == {"near", "far"}

Other(e) == IF e = "near" THEN "far" ELSE "near"

\* the sequences over set S of length lo..hi
SeqsOf(S, lo, hi) == UNION {[1..n -> S] : n \in lo..hi}

\* the non-empty keys
Keys == SeqsOf(0..MaxKeyByte, 1, MaxKeyLen)

\* x.keyPos = (x.keyPos + 1) % len(x.key)
stepKeyPos(pos, key) == (pos + 1) % Len(key)

\* the loop of Read and of Write over the bytes of p, from keyPos = pos:
\* p[i] ^ x.key[x.keyPos], the key position stepping with every byte
RECURSIVE xorLoop(_, _, _)
xorLoop(p, key, pos) ==
    IF p = <<>> THEN <<>>
    ELSE <<Xor(Head(p), key[pos + 1])>> \o xorLoop(Tail(p), key, stepKeyPos(pos, key))

\* a wrapper that forgets how far in the key a call has come
keyPosAfter_unmoved(n, key, pos) == pos

\* x.keyPos after that loop
RECURSIVE keyPosAfter(_, _, _)
keyPosAfter(n, key, pos) ==
    IF n = 0 THEN pos ELSE keyPosAfter(n - 1, key, stepKeyPos(pos, key))

\* NewXorReaderWriter at both ends with the same key.  pipe[e] holds the bytes
\* written towards end e and not yet read by it; sent[e] and got[e] are the
\* bytes the user of end e passed to Write and got from Read; wrote[e] is
\* the count the last Write at e returned and asked[e] the length of its
\* input.
InitXor(key) ==
    x = [key |-> key,
         keyPos |-> [e \in Ends |-> 0],
         pipe |-> [e \in Ends |-> <<>>],
         sent |-> [e \in Ends |-> <<>>],
         got |-> [e \in Ends |-> <<>>],
         wrote |-> [e \in Ends |-> 0],
         asked |-> [e \in Ends |-> 0]]

\* what the sessions of internal/yamux are in while only the wrappers run
yamuxVars ==
    <<config, closed, closeLock, streamLock, nextStreamID, streams, objs,
      acceptCh, writeCh, shutdown, connClosed, wire, th, handles, g, sg, role,
      conn>>

\* XorReaderWriter.Write(p) at end e: a copy of p is encoded and written to
\* the underlying writer, which takes all of it
XorWrite(e, p) ==
    /\ Len(x.sent[e]) + Len(p) <= MaxXorBytes
    /\ x' = [x EXCEPT !.pipe[Other(e)] = @ \o xorLoop(p, x.key, x.keyPos[e]),
                      !.keyPos[e] = keyPosAfter(Len(p), x.key, @),
                      !.sent[e] = @ \o p,
                      !.wrote[e] = Len(p),
                      !.asked[e] = Len(p)]
    /\ UNCHANGED yamuxVars

\* XorReaderWriter.Read(p) at end e with len(p) = n: the underlying reader
\* gives the n bytes it has, or fewer, and they are decoded in place
XorRead(e, n) ==
    /\ x.pipe[e] # <<>>
    /\ LET m == Min(n, Len(x.pipe[e]))
           raw == SubSeq(x.pipe[e], 1, m)
       IN x' = [x EXCEPT !.pipe[e] = SubSeq(@, m + 1, Len(@)),
                         !.keyPos[e] = keyPosAfter(m, x.key, @),
                         !.got[e] = @ \o xorLoop(raw, x.key, x.keyPos[e])]
    /\ UNCHANGED yamuxVars

\* the data a user writes
XorInputs == SeqsOf(0..MaxDataByte, 0, MaxXorChunk)

\* ------------------------------------------- the reader, byte by byte
\* binary.BigEndian.PutUint32
PutUint32(n) ==
    <<(n \div 16777216) % 256, (n \div 65536) % 256, (n \div 256) % 256, n % 256>>

\* binary.BigEndian.Uint32 of the four bytes of b from position i on
Uint32(b, i) ==
    b[i] * 16777216 + b[i + 1] * 65536 + b[i + 2] * 256 + b[i + 3]

\* the headerSize bytes of a header, as every sender of the package lays
\* them out
encodeHeader(type, flags, id, length) ==
    <<type, flags>> \o PutUint32(id) \o PutUint32(length)

\* the reader's decoding of the headerSize bytes io.ReadFull gave it
decodeHeader(b) ==
    [type |-> b[1], flags |-> b[2], id |-> Uint32(b, 3), len |-> Uint32(b, 7)]

\* a reader that skips length bytes after every header
consumed_skipsLength(h) == headerSize + h.len

\* the bytes one turn of the reader loop takes off the connection: the
\* header, and for a DATA header the length bytes handleData reads (into the
\* stream's buffer or a scratch slice)
consumed(h) == headerSize + (IF h.type = typeData THEN h.len ELSE 0)

\* the connection of a new session, followed byte by byte: in holds the
\* bytes not read yet, seen the headers the reader loop has decoded and the
\* bytes each turn took, sent the frames the peer has written
InitConn == [in |-> <<>>, seen |-> <<>>, sent |-> 0]

\* what a peer may write in one go: a header of any type with length 0, or
\* with length headerSize and then either nothing or headerSize bytes that
\* read as the SYN header of stream MaxRawID
ConnFrames ==
    {encodeHeader(type, 0, ServerFirstID, 0) : type \in 0..MaxType}
    \cup {encodeHeader(type, 0, ServerFirstID, headerSize) \o tail :
              type \in 0..MaxType,
              tail \in {<<>>, encodeHeader(typeSYN, 0, MaxRawID, 0)}}

\* the peer writes the bytes f
connSend(f) ==
    /\ conn.sent < MaxConnFrames
    /\ conn' = [conn EXCEPT !.in = @ \o f, !.sent = @ + 1]
    /\ UNCHANGED <<config, closed, closeLock, streamLock, nextStreamID, streams,
                   objs, acceptCh, writeCh, shutdown, connClosed, wire, th,
                   handles, g, sg, role, x>>

\* one turn of the reader loop: io.ReadFull of the header, the decoding, and
\* what the handler of the type reads from the connection
readerTurn ==
    /\ Len(conn.in) >= headerSize
    /\ LET h == decodeHeader(SubSeq(conn.in, 1, headerSize))
       IN /\ Len(conn.in) >= consumed(h)
          /\ conn' = [conn EXCEPT
                         !.in = SubSeq(@, consumed(h) + 1, Len(@)),
                         !.seen = Append(@, [h |-> h, took |-> consumed(h)])]
    /\ UNCHANGED <<config, closed, closeLock, streamLock, nextStreamID, streams,
                   objs, acceptCh, writeCh, shutdown, connClosed, wire, th,
                   handles, g, sg, role, x>>

\* ------------------------------------------------------ specifications
NoRole == [s \in Sess |-> [t \in Tasks |-> {}]]

\* the steps of a session's own loops and of s.write
Transport(s) ==
    \/ reader(s)
    \/ writer(s)
    \/ \E t \in Threads :
        \/ write(s, t)
        \/ writeSend(s, t)
        \/ writeTimeout(s, t)

\* Spec: the data plane.  A caller of the server opens streams and writes to
\* them in chunks of every size; a caller of the client accepts streams and
\* reads from them into destinations of every size.
Init ==
    /\ InitSession({}, MaxBacklog)
    /\ x = NoXor
    /\ conn = NoConn
    /\ role = [NoRole EXCEPT
                 !["server"]["t1"] = {"OpenStream", "Write"},
                 !["client"]["t1"] = {"AcceptStream", "Read"}]

Next ==
    \E s \in Sess :
        \/ Transport(s)
        \/ \E t \in Tasks :
            \/ OpenStream(s, t)
            \/ OpenRegister(s, t)
            \/ AcceptStream(s, t)
            \/ AcceptReceive(s, t)
            \/ AcceptTimeout(s, t)
            \/ bufferRead(s, t)
            \/ bufferWake(s, t)
            \/ \E o \in handles[s] :
                \/ \E k \in 0..MaxChunk : StreamWrite(s, t, o, Payload(s, k))
                \/ \E n \in 1..MaxChunk : StreamRead(s, t, o, n)

Spec == Init /\ [][Next]_vars

\* SpecEof: data and end-of-stream.  A caller of the server opens streams,
\* writes single bytes to them and closes them; a caller of the client
\* accepts streams and reads from them.
InitEof ==
    /\ InitSession({}, MaxBacklog)
    /\ x = NoXor
    /\ conn = NoConn
    /\ role = [NoRole EXCEPT
                 !["server"]["t1"] = {"OpenStream", "Write", "StreamClose"},
                 !["client"]["t1"] = {"AcceptStream", "Read"}]

NextEof ==
    \E s \in Sess :
        \/ Transport(s)
        \/ \E t \in Tasks :
            \/ OpenStream(s, t)
            \/ OpenRegister(s, t)
            \/ AcceptStream(s, t)
            \/ AcceptReceive(s, t)
            \/ AcceptTimeout(s, t)
            \/ StreamCloseSet(s, t)
            \/ bufferRead(s, t)
            \/ bufferWake(s, t)
            \/ \E o \in handles[s] :
                \/ StreamClose(s, t, o)
                \/ StreamWrite(s, t, o, Payload(s, 1))
                \/ StreamRead(s, t, o, MaxChunk)

SpecEof == InitEof /\ [][NextEof]_vars

\* SpecClose: closing.  One caller of the server opens streams and closes the
\* session while a second one closes the session too; a caller of the client
\* closes the client's session.
InitClose ==
    /\ InitSession({}, MaxBacklog)
    /\ x = NoXor
    /\ conn = NoConn
    /\ role = [NoRole EXCEPT
                 !["server"]["t1"] = {"OpenStream", "Close"},
                 !["server"]["t2"] = {"Close"},
                 !["client"]["t1"] = {"Close"}]

NextClose ==
    \E s \in Sess :
        \/ Transport(s)
        \/ readerStop(s)
        \/ writerStop(s)
        \/ \E t \in Threads :
            \/ CloseBegin(s, t)
            \/ CloseFinish(s, t)
        \/ \E t \in Tasks :
            \/ OpenStream(s, t)
            \/ OpenRegister(s, t)

SpecClose == InitClose /\ [][NextClose]_vars

\* SpecKeep: Close from every caller.  The server runs its keepalive loop and
\* the client answers its PINGs; two callers of the server open streams and
\* close the session, and the loops of either session close it when the
\* connection or the closed session fails them.
InitKeep ==
    /\ InitSession({"server"}, MaxBacklog)
    /\ x = NoXor
    /\ conn = NoConn
    /\ role = [NoRole EXCEPT
                 !["server"]["t1"] = {"OpenStream", "Close"},
                 !["server"]["t2"] = {"Close"}]

NextKeep ==
    \E s \in Sess :
        \/ Transport(s)
        \/ readerStop(s)
        \/ writerStop(s)
        \/ keepalive(s)
        \/ keepaliveStop(s)
        \/ \E t \in Threads :
            \/ CloseBegin(s, t)
            \/ CloseFinish(s, t)
        \/ \E t \in Tasks :
            \/ OpenStream(s, t)
            \/ OpenRegister(s, t)

SpecKeep == InitKeep /\ [][NextKeep]_vars

\* SpecIds: streams opened from several tasks.  Two callers of the server and
\* one of the client open streams.
InitIds ==
    /\ InitSession({}, MaxBacklog)
    /\ x = NoXor
    /\ conn = NoConn
    /\ role = [NoRole EXCEPT
                 !["server"]["t1"] = {"OpenStream"},
                 !["server"]["t2"] = {"OpenStream"},
                 !["client"]["t1"] = {"OpenStream"}]

NextIds ==
    \E s \in Sess :
        \/ Transport(s)
        \/ \E t \in Tasks :
            \/ OpenStream(s, t)
            \/ OpenRegister(s, t)

SpecIds == InitIds /\ [][NextIds]_vars

\* SpecStreamClose: a stream closed from several tasks.  One caller of the
\* server opens streams; it and a second caller close them.
InitStreamClose ==
    /\ InitSession({}, MaxBacklog)
    /\ x = NoXor
    /\ conn = NoConn
    /\ role = [NoRole EXCEPT
                 !["server"]["t1"] = {"OpenStream", "StreamClose"},
                 !["server"]["t2"] = {"StreamClose"}]

NextStreamClose ==
    \E s \in Sess :
        \/ Transport(s)
        \/ \E t \in Tasks :
            \/ OpenStream(s, t)
            \/ OpenRegister(s, t)
            \/ StreamCloseSet(s, t)
            \/ \E o \in handles[s] : StreamClose(s, t, o)

SpecStreamClose == InitStreamClose /\ [][NextStreamClose]_vars

\* SpecRaw: the server against any peer.  The far end of the connection is
\* not a session of this program: it sends the headers and DATA frames it
\* likes, and what the server writes to it is left unread.  A caller of the
\* server opens streams.
InitRaw ==
    /\ InitSession({}, MaxBacklog)
    /\ x = NoXor
    /\ conn = NoConn
    /\ role = [NoRole EXCEPT !["server"]["t1"] = {"OpenStream"}]

NextRaw ==
    \/ Transport("server")
    \/ \E f \in RawFrames \cup RawData : Inject("server", f)
    \/ \E t \in Tasks :
        \/ OpenStream("server", t)
        \/ OpenRegister("server", t)

SpecRaw == InitRaw /\ [][NextRaw]_vars

\* FairSpec: a session closed under a reader.  A caller of the server opens
\* streams; one caller of the client accepts streams and reads from them while
\* another closes the client's session.  Every started call and every loop
\* goes on running: the scheduler leaves no runnable goroutine waiting for
\* ever and every timer fires.  Nothing obliges a caller to start a call.
InitFair ==
    /\ InitSession({}, MaxBacklog)
    /\ x = NoXor
    /\ conn = NoConn
    /\ role = [NoRole EXCEPT
                 !["server"]["t1"] = {"OpenStream"},
                 !["client"]["t1"] = {"AcceptStream", "Read"},
                 !["client"]["t2"] = {"Close"}]

\* the steps of thread t that go on with what it has started
Continue(s, t) ==
    \/ write(s, t)
    \/ writeSend(s, t)
    \/ writeTimeout(s, t)
    \/ CloseFinish(s, t)
    \/ t \in Loops /\ CloseBegin(s, t)
    \/ t = "reader" /\ (reader(s) \/ readerStop(s))
    \/ t = "writer" /\ (writer(s) \/ writerStop(s))
    \/ OpenRegister(s, t)
    \/ AcceptReceive(s, t)
    \/ AcceptTimeout(s, t)
    \/ StreamCloseSet(s, t)
    \/ bufferRead(s, t)
    \/ bufferWake(s, t)

NextFair ==
    \E s \in Sess :
        \/ Transport(s)
        \/ readerStop(s)
        \/ writerStop(s)
        \/ \E t \in Threads :
            \/ CloseBegin(s, t)
            \/ CloseFinish(s, t)
        \/ \E t \in Tasks :
            \/ OpenStream(s, t)
            \/ OpenRegister(s, t)
            \/ AcceptStream(s, t)
            \/ AcceptReceive(s, t)
            \/ AcceptTimeout(s, t)
            \/ bufferRead(s, t)
            \/ bufferWake(s, t)
            \/ \E o \in handles[s] : StreamRead(s, t, o, 1)

Fairness == \A s \in Sess : \A t \in Threads : WF_vars(Continue(s, t))

FairSpec == InitFair /\ [][NextFair]_vars /\ Fairness

\* FinSpec: end-of-stream.  A caller of the server opens streams and closes
\* them; a caller of the client accepts streams and reads from them.  No
\* session is closed.  The same goroutines go on running as in FairSpec.
InitFin ==
    /\ InitSession({}, MaxBacklog)
    /\ x = NoXor
    /\ conn = NoConn
    /\ role = [NoRole EXCEPT
                 !["server"]["t1"] = {"OpenStream", "StreamClose"},
                 !["client"]["t1"] = {"AcceptStream", "Read"}]

NextFin ==
    \E s \in Sess :
        \/ Transport(s)
        \/ \E t \in Tasks :
            \/ OpenStream(s, t)
            \/ OpenRegister(s, t)
            \/ AcceptStream(s, t)
            \/ AcceptReceive(s, t)
            \/ AcceptTimeout(s, t)
            \/ StreamCloseSet(s, t)
            \/ bufferRead(s, t)
            \/ bufferWake(s, t)
            \/ \E o \in handles[s] :
                \/ StreamClose(s, t, o)
                \/ StreamRead(s, t, o, 1)

FinSpec == InitFin /\ [][NextFin]_vars /\ Fairness

\* LocalSpec: a stream closed under its own reader.  One caller of the server
\* opens streams and reads from them while another closes them; the far end
\* of the connection, as in SpecRaw, sends single bytes for the server's
\* first stream when it likes.  No session is closed.  The same goroutines go on running as in FairSpec.
InitLocal ==
    /\ InitSession({}, MaxBacklog)
    /\ x = NoXor
    /\ conn = NoConn
    /\ role = [NoRole EXCEPT
                 !["server"]["t1"] = {"OpenStream", "Read"},
                 !["server"]["t2"] = {"StreamClose"}]

NextLocal ==
    \/ Transport("server")
    \/ \E f \in {d \in RawData : d[1].id = ServerFirstID /\ d[1].len = 1} :
           Inject("server", f)
    \/ \E t \in Tasks :
        \/ OpenStream("server", t)
        \/ OpenRegister("server", t)
        \/ StreamCloseSet("server", t)
        \/ bufferRead("server", t)
        \/ bufferWake("server", t)
        \/ \E o \in handles["server"] :
            \/ StreamClose("server", t, o)
            \/ StreamRead("server", t, o, 1)

\* the goroutines of the server go on running
FairnessLocal == \A t \in Threads : WF_vars(Continue("server", t))

LocalSpec == InitLocal /\ [][NextLocal]_vars /\ FairnessLocal

\* SpecWrite: writes of every length on open and closed streams.  A caller
\* of the server opens streams, writes to them, the empty slice included, and
\* closes them; the client's loops take what arrives.
InitWrite ==
    /\ InitSession({}, MaxBacklog)
    /\ x = NoXor
    /\ conn = NoConn
    /\ role = [NoRole EXCEPT
                 !["server"]["t1"] = {"OpenStream", "Write", "StreamClose"}]

NextWrite ==
    \E s \in Sess :
        \/ Transport(s)
        \/ \E t \in Tasks :
            \/ OpenStream(s, t)
            \/ OpenRegister(s, t)
            \/ StreamCloseSet(s, t)
            \/ \E o \in handles[s] :
                \/ StreamClose(s, t, o)
                \/ \E k \in 0..MaxChunk : StreamWrite(s, t, o, Payload(s, k))

SpecWrite == InitWrite /\ [][NextWrite]_vars

\* SpecFrames: every source of frames at once.  On the server one caller
\* opens streams and writes to them while another closes them, and its reader
\* answers with ACKs and PONGs the SYNs and PINGs that the far end of the
\* connection, as in SpecRaw, sends when it likes.  What the server writes to
\* the connection is left unread: wire["client"] is all of it.
InitFrames ==
    /\ InitSession({}, MaxBacklog)
    /\ x = NoXor
    /\ conn = NoConn
    /\ role = [NoRole EXCEPT
                 !["server"]["t1"] = {"OpenStream", "Write"},
                 !["server"]["t2"] = {"StreamClose"}]

NextFrames ==
    \/ Transport("server")
    \/ \E f \in {Frame(typePING, MaxFlags, 0, <<>>),
                 Frame(typeSYN, 0, ClientFirstID, <<>>)} :
           Inject("server", f)
    \/ \E t \in Tasks :
        \/ OpenStream("server", t)
        \/ OpenRegister("server", t)
        \/ StreamCloseSet("server", t)
        \/ \E o \in handles["server"] :
            \/ StreamClose("server", t, o)
            \/ StreamWrite("server", t, o, Payload("server", MaxChunk))

SpecFrames == InitFrames /\ [][NextFrames]_vars

\* SpecNoop: headers that ask for nothing.  One caller of the server opens
\* streams and reads from them, another waits in AcceptStream; the far end of
\* the connection, as in SpecRaw, sends ACK and PONG headers and headers of no
\* known type, and besides them the SYN and the single bytes that the two
\* callers wait for.
InitNoop ==
    /\ InitSession({}, MaxBacklog)
    /\ x = NoXor
    /\ conn = NoConn
    /\ role = [NoRole EXCEPT
                 !["server"]["t1"] = {"OpenStream", "Read"},
                 !["server"]["t2"] = {"AcceptStream"}]

NextNoop ==
    \/ Transport("server")
    \/ \E f \in RawNoop \cup {Frame(typeSYN, 0, ClientFirstID, <<>>)}
                      \cup {d \in RawData : d[1].id = ServerFirstID /\ d[1].len = 1} :
           Inject("server", f)
    \/ \E t \in Tasks :
        \/ OpenStream("server", t)
        \/ OpenRegister("server", t)
        \/ AcceptStream("server", t)
        \/ AcceptReceive("server", t)
        \/ AcceptTimeout("server", t)
        \/ bufferRead("server", t)
        \/ bufferWake("server", t)
        \/ \E o \in handles["server"] : StreamRead("server", t, o, 1)

SpecNoop == InitNoop /\ [][NextNoop]_vars

\* SpecBuf: the buffer of a stream by itself.  A caller of the server opens
\* streams; on the buffer of the first, a producer calls Write with slices of
\* MinBufWrite and MaxBufWrite bytes (handleData, the one caller of Write in
\* the package, never passes an empty slice) and Close, and the caller, the one
\* consumer, calls Read with destinations of MinBufRead and MaxBufRead bytes.  What the server writes
\* to the connection is left unread and the far end sends nothing.
InitBuf ==
    /\ InitSession({}, MaxBacklog)
    /\ x = NoXor
    /\ conn = NoConn
    /\ role = [NoRole EXCEPT !["server"]["t1"] = {"OpenStream", "BufRead"}]

NextBuf ==
    \/ writer("server")
    \/ \E t \in Threads :
        \/ write("server", t)
        \/ writeSend("server", t)
        \/ writeTimeout("server", t)
    \/ \E t \in Tasks :
        \/ OpenStream("server", t)
        \/ OpenRegister("server", t)
        \/ bufferRead("server", t)
        \/ bufferWake("server", t)
        \/ \E o \in handles["server"] \cap {1} : \E n \in {MinBufRead, MaxBufRead} :
               bufferReadCall("server", t, o, n)
    \/ \E o \in handles["server"] \cap {1} :
        \/ \E n \in {MinBufWrite, MaxBufWrite} :
               bufferWrite("server", o, BufPayload("server", o, n))
        \/ bufferClose("server", o)

SpecBuf == InitBuf /\ [][NextBuf]_vars

\* FairBuf: SpecBuf with the goroutines of the server going on running
FairBuf == InitBuf /\ [][NextBuf]_vars /\ FairnessLocal

\* SpecConn: the reader loop against the bytes of the connection.  A peer
\* that is not this program writes up to MaxConnFrames of ConnFrames; the
\* reader loop takes them as it takes any bytes.
InitConnOnly ==
    /\ InitSession({}, MaxBacklog)
    /\ x = NoXor
    /\ role = NoRole
    /\ conn = InitConn

NextConn ==
    \/ \E f \in ConnFrames : connSend(f)
    \/ readerTurn

SpecConn == InitConnOnly /\ [][NextConn]_vars

\* SpecXor: both ends of a connection wrapped with the same key; the user of
\* either end writes and reads in chunks of every size, in any order.
InitXorPair ==
    /\ InitSession({}, MaxBacklog)
    /\ role = NoRole
    /\ conn = NoConn
    /\ \E key \in Keys : InitXor(key)

NextXor ==
    \E e \in Ends :
        \/ \E p \in XorInputs : XorWrite(e, p)
        \/ \E n \in 1..MaxXorChunk : XorRead(e, n)

SpecXor == InitXorPair /\ [][NextXor]_vars

\* SpecXorOne: one direction.  The near end writes through its wrapper; the
\* far end reads what was written through a fresh wrapper with the same key.
NextXorOne ==
    \/ \E p \in XorInputs : XorWrite("near", p)
    \/ \E n \in 1..MaxXorChunk : XorRead("far", n)

SpecXorOne == InitXorPair /\ [][NextXorOne]_vars

\* ------------------------------------------------------------- claims
IsPrefix(a, b) == Len(a) <= Len(b) /\ a = SubSeq(b, 1, Len(a))

\* stream object os of session s was returned by OpenStream and object op of
\* the peer session is the stream AcceptStream returned for the same ID
Corresponds(s, os, op) ==
    /\ g[s][os].via = "open"
    /\ g[Peer(s)][op].via = "accept"
    /\ objs[s][os].id = objs[Peer(s)][op].id

\* C1: the bytes Read has returned on an accepted stream are a prefix of the
\* bytes Write has successfully written on the opener's stream of the same ID,
\* whatever the chunks of the writes and reads and the traffic on other streams.
C1_RoundTrip ==
    \A s \in Sess : \A os \in DOMAIN objs[s] : \A op \in DOMAIN objs[Peer(s)] :
        Corresponds(s, os, op) => IsPrefix(g[Peer(s)][op].recvd, g[s][os].sent)

\* two bytes written in one Write came out of two Reads, with a second stream open
C1_Witness ==
    \E os \in DOMAIN objs["server"] : \E op \in DOMAIN objs["client"] :
        /\ Corresponds("server", os, op)
        /\ Len(g["client"][op].recvd) = 2
        /\ g["client"][op].recvd = g["server"][os].sent
        /\ objs["client"][op].readBuf.rd = 0
        /\ Len(objs["server"]) = 2

\* C2: once Read has returned end-of-stream on a stream whose FIN the reader
\* loop has processed, every byte the reader loop appended to the stream's
\* buffer has been returned by Read.
C2_EofAfterDrain ==
    \A s \in Sess : \A o \in DOMAIN objs[s] :
        (g[s][o].finProc /\ g[s][o].eof) => g[s][o].recvd = g[s][o].app

\* C5: a Read that waits on an empty buffer at the moment its session is
\* marked closed returns in the end (sg[s].atClose holds the tasks that waited
\* so at that moment and have not returned since).
C5_ReadReturnsOnClose ==
    \A s \in Sess : \A t \in Tasks :
        (t \in sg[s].atClose) ~> (t \notin sg[s].atClose)

\* thread t is inside Close on s: it holds the close-lock and waits for the
\* registry lock
ClosePending(s, t) == th[s][t].pc = "close2" /\ closeLock[s] = t

\* the reader of s is inside handleSYN: it holds the registry lock and waits
\* in s.write for the close-lock
SynPending(s) ==
    /\ streamLock[s] = "reader"
    /\ th[s]["reader"].pc = "write"
    /\ th[s]["reader"].op = "handleSYN"

\* C3: no state has a user task's Close holding the close-lock and waiting
\* for the registry lock while the reader, in handleSYN, holds the registry
\* lock and waits for the close-lock.
C3_NoLockCycle ==
    \A s \in Sess : \A t \in Tasks : ~(ClosePending(s, t) /\ SynPending(s))

\* every stream the registry of s holds is marked closed, its buffer closed
RegistryClosed(s) ==
    \A id \in DOMAIN streams[s] :
        /\ objs[s][streams[s][id]].closed
        /\ objs[s][streams[s][id]].readBuf.closed

\* C4: once a Close that closed the session has returned, the session is
\* marked closed, its connection is closed and every registered stream is
\* closed with its buffer closed.
C4_AllClosedAfterClose ==
    \A s \in Sess :
        sg[s].first > 0 => closed[s] /\ connClosed[s] /\ RegistryClosed(s)

\* C6: the registry walk, the close of either shutdown signal and the close
\* of the connection happen at most once per session, and exactly once as
\* soon as any Close has returned; only one Close is the closing one.
C6_CloseOnce ==
    \A s \in Sess :
        /\ sg[s].walks <= 1 /\ sg[s].rsd <= 1 /\ sg[s].wsd <= 1
        /\ sg[s].connCloses <= 1 /\ sg[s].first <= 1
        /\ (sg[s].first > 0 \/ sg[s].later # {}) =>
               /\ sg[s].walks = 1 /\ sg[s].rsd = 1 /\ sg[s].wsd = 1
               /\ sg[s].connCloses = 1 /\ sg[s].first = 1

\* the server was closed by one of its callers; its other caller, its
\* keepalive loop and its writer loop have each returned from a later Close,
\* and so has the reader loop of the client
C6_Witness ==
    /\ sg["server"].first = 1
    /\ \E t \in Tasks : sg["server"].later = {t, "keepalive", "writer"}
    /\ "reader" \in sg["client"].later
    /\ Len(objs["server"]) > 0

\* C7: no stream has more than one FIN frame enqueued for it.
C7_OneFin ==
    \A s \in Sess : \A o \in DOMAIN objs[s] : g[s][o].fins <= 1

\* the IDs that OpenStream has allocated on session s
LocalIDs(s) == {objs[s][o].id : o \in {i \in DOMAIN objs[s] : g[s][i].by = "OpenStream"}}

\* C8: the IDs allocated by OpenStream are odd on the server and even on the
\* client, and no ID is allocated on both sides.
C8_OddEven ==
    /\ \A id \in LocalIDs("server") : id % 2 = 1
    /\ \A id \in LocalIDs("client") : id % 2 = 0
    /\ LocalIDs("server") \cap LocalIDs("client") = {}

\* both sides have allocated two IDs, the server's by calls of two tasks that
\* were in OpenStream together
C8_Witness ==
    /\ Cardinality(LocalIDs("server")) >= 2
    /\ Cardinality(LocalIDs("client")) >= 2
    /\ \A t \in Tasks : th["server"][t].op = "OpenStream"

\* C9: no two stream objects of a session were ever given the same ID (every
\* stream object is registered under its ID when it is made).
C9_NoReuse ==
    \A s \in Sess : \A o1, o2 \in DOMAIN objs[s] :
        o1 # o2 => objs[s][o1].id # objs[s][o2].id

\* the stream objects a session may hold: those it opened and those its peer
\* opened
Objs == 1..(2 * MaxOpens)

\* the reader of s takes from the connection a FIN for an ID it has no stream
\* registered under
FinUnknown(s) ==
    /\ th[s]["reader"].pc = "loop"
    /\ wire[s] # <<>>
    /\ Head(wire[s]).type = typeFIN
    /\ Head(wire[s]).id \notin DOMAIN streams[s]
    /\ wire'[s] = Tail(wire[s])

\* task t waits in Read on stream object o of s, whose buffer is empty and
\* whose FIN the reader has processed
FinBlocked(s, t, o) ==
    /\ th[s][t].pc = "rd_wait" /\ th[s][t].obj = o
    /\ o \in DOMAIN objs[s]
    /\ g[s][o].finProc
    /\ objs[s][o].readBuf.rd >= objs[s][o].readBuf.wr

RECURSIVE Flat(_)
Flat(q) == IF q = <<>> THEN <<>> ELSE Head(q) \o Flat(Tail(q))

DataUnknown(s) ==
    /\ th[s]["reader"].pc = "loop"
    /\ wire[s] # <<>>
    /\ Head(wire[s]).type = typeData
    /\ Head(wire[s]).id \notin DOMAIN streams[s]
    /\ Len(wire'[s]) < Len(wire[s])

\* C12: a DATA frame for an unregistered ID takes its header and exactly its
\* `length` payload bytes off the connection and changes nothing of the
\* session, its streams, its registry or its queues; the reader is back at the
\* top of its loop, and whatever stands first on the connection when the
\* reader is there is a header.
C12_UnknownDataSkipped ==
    /\ [](\A s \in Sess :
            (th[s]["reader"].pc = "loop" /\ wire[s] # <<>>) => Head(wire[s]).k = "h")
    /\ [][\A s \in Sess :
            DataUnknown(s) =>
                /\ wire'[s] = SubSeq(wire[s], Head(wire[s]).len + 2, Len(wire[s]))
                /\ th'[s]["reader"] = AtLoop
                /\ UNCHANGED <<config, closed, closeLock, streamLock,
                               nextStreamID, streams, objs, acceptCh, writeCh,
                               shutdown, connClosed, handles>>
                /\ wire'[Peer(s)] = wire[Peer(s)]]_vars

\* the server's reader has taken a DATA frame with payload for an
\* unregistered ID and the header that followed it, a SYN, whose stream is
\* registered and queued
C12_Witness ==
    /\ sg["server"].discards = 1
    /\ sg["server"].injected = 2
    /\ wire["server"] = <<>>
    /\ Len(acceptCh["server"]) = 1
    /\ th["server"]["reader"].pc = "loop"

\* the reader of s returns from handleSYN with the accept queue full: its
\* non-blocking offer of the new stream fails
SynDropped(s) ==
    /\ th[s]["reader"].op = "handleSYN"
    /\ th[s]["reader"].pc \in {"write", "select"}
    /\ th'[s]["reader"].pc = "loop"
    /\ Len(acceptCh[s]) >= config[s].AcceptBacklog

\* C13: the accept queue never holds more than AcceptBacklog streams; a SYN
\* that arrives while it is full and nobody accepts is dropped: its ID is not
\* in the registry once handleSYN has returned, every other registration and
\* every stream object, the queue and the session's closed flag are as they
\* were, and the reader is back at the top of its loop.
C13_BacklogDrop ==
    /\ [](\A s \in Sess : Len(acceptCh[s]) <= config[s].AcceptBacklog)
    /\ [][\A s \in Sess :
            SynDropped(s) =>
                LET id == objs[s][th[s]["reader"].obj].id
                IN /\ id \notin DOMAIN streams'[s]
                   /\ DOMAIN streams'[s] = DOMAIN streams[s] \ {id}
                   /\ \A i \in DOMAIN streams'[s] : streams'[s][i] = streams[s][i]
                   /\ th'[s]["reader"] = AtLoop
                   /\ UNCHANGED <<closed, objs, acceptCh, handles, nextStreamID,
                                  shutdown, connClosed>>]_vars

\* the server's reader has handled two SYNs with nobody accepting: the first
\* stream is queued and registered, the second is dropped, and the reader is
\* back at its loop on the open session
C13_Witness ==
    /\ Len(objs["server"]) = 2
    /\ \A o \in DOMAIN objs["server"] : g["server"][o].by = "handleSYN"
    /\ Len(acceptCh["server"]) = config["server"].AcceptBacklog
    /\ DOMAIN streams["server"] = {objs["server"][1].id}
    /\ objs["server"][2].id # objs["server"][1].id
    /\ th["server"]["reader"].pc = "loop"
    /\ ~closed["server"]

\* task t returns from the select of AcceptStream on the open session s with
\* the accept queue empty
AcceptExpires(s, t) ==
    /\ th[s][t].pc = "accept"
    /\ th'[s][t].pc = "idle"
    /\ acceptCh[s] = <<>>
    /\ ~closed[s]

\* C14: an AcceptStream on an open session that gets no stream until
\* StreamOpenTimeout has passed returns the timeout error, which is not the
\* session-closed error, and no stream; the session stays open and its
\* registry, its stream objects and its accept queue are as they were.
C14_AcceptTimeout ==
    [][\A s \in Sess : \A t \in Tasks :
        AcceptExpires(s, t) =>
            /\ th'[s][t].call = "AcceptStream"
            /\ th'[s][t].res = errAcceptTimeout
            /\ th'[s][t].res # errSessionClosed
            /\ ~closed'[s]
            /\ UNCHANGED <<handles, streams, objs, acceptCh, nextStreamID>>]_vars

\* the client's caller has got the timeout from AcceptStream on the open
\* session while the server had opened no stream
C14_Witness ==
    /\ th["client"]["t1"] = Done("AcceptStream", errAcceptTimeout)
    /\ ~closed["client"]
    /\ acceptCh["client"] = <<>>
    /\ handles["client"] = {}
    /\ objs["client"] = <<>>

\* C15: an AcceptStream that waits on the empty accept queue of a session
\* that has been closed meanwhile returns the session-closed error: it does
\* not return the timeout error and it returns no stream.
C15_AcceptAbortedByClose ==
    [][\A s \in Sess : \A t \in Tasks :
        (/\ th[s][t].pc = "accept"
         /\ closed[s]
         /\ acceptCh[s] = <<>>
         /\ th'[s][t].pc = "idle")
            => /\ th'[s][t].res = errSessionClosed
               /\ handles'[s] = handles[s]]_vars

\* task t waits in Read on the empty buffer of a stream of s which a
\* Stream.Close of s has marked closed
LocalCloseBlocked(s, t) ==
    /\ th[s][t].pc = "rd_wait"
    /\ th[s][t].obj \in DOMAIN objs[s]
    /\ LET o == th[s][t].obj
       IN /\ objs[s][o].closed /\ ~g[s][o].finProc
          /\ objs[s][o].readBuf.rd >= objs[s][o].readBuf.wr

\* C16: a Read that waits on the empty buffer of a stream which another task
\* closes with Stream.Close returns end-of-stream in the end.
C16_ReadReturnsOnLocalClose ==
    \A s \in Sess : \A t \in Tasks :
        LocalCloseBlocked(s, t) ~> (th[s][t].pc = "idle" /\ th[s][t].res = "EOF")

\* task t of the closed session s starts the call `call` (its IsClosed check
\* runs), which goes on to the step `pc` or returns
StartsClosed(s, t, call, pc) ==
    /\ closed[s]
    /\ th[s][t].pc = "idle"
    /\ th'[s][t] # th[s][t]
    /\ \/ th'[s][t].pc = pc
       \/ th'[s][t].pc = "idle" /\ th'[s][t].call = call

\* thread t of the closed session s makes the IsClosed check of s.write
WritesClosed(s, t) ==
    /\ closed[s]
    /\ th[s][t].pc = "write"
    /\ th'[s][t] # th[s][t]

\* C17: on a closed session OpenStream, AcceptStream and s.write fail with the
\* session-closed error: OpenStream allocates no ID and registers nothing,
\* AcceptStream takes nothing from the accept queue and s.write puts nothing
\* on writeCh.
C17_ClosedSessionFails ==
    [][\A s \in Sess :
        /\ \A t \in Tasks :
            /\ StartsClosed(s, t, "OpenStream", "open") =>
                   /\ th'[s][t] = Done("OpenStream", errSessionClosed)
                   /\ UNCHANGED <<nextStreamID, streams, objs, handles, writeCh>>
            /\ StartsClosed(s, t, "AcceptStream", "accept") =>
                   /\ th'[s][t] = Done("AcceptStream", errSessionClosed)
                   /\ UNCHANGED <<acceptCh, handles, streams, objs>>
        /\ \A t \in Threads :
            WritesClosed(s, t) =>
                /\ writeCh'[s] = writeCh[s]
                /\ wire' = wire
                /\ th'[s][t].pc # "select"
                /\ t \in Tasks => th'[s][t].pc = "idle" /\ th'[s][t].res = errSessionClosed
                /\ t = "keepalive" => th'[s][t] = [WantClose EXCEPT !.res = errSessionClosed]]_vars

\* both sessions are closed; the server's caller has got the session-closed
\* error from an OpenStream that allocated nothing, and the client's caller
\* has got it from AcceptStream
C17_Witness ==
    /\ closed["server"] /\ closed["client"]
    /\ th["server"]["t1"] = Done("OpenStream", errSessionClosed)
    /\ nextStreamID["server"] = FirstID("server")
    /\ objs["server"] = <<>>
    /\ th["client"]["t1"] = Done("AcceptStream", errSessionClosed)

\* C18: a Write of the empty slice returns success with zero bytes written,
\* whatever the state of the stream, closed streams included (th[s][t].n is
\* the length of the input of the Write that t returned from).
C18_EmptyWriteSucceeds ==
    \A s \in Sess : \A t \in Tasks :
        (th[s][t].pc = "idle" /\ th[s][t].call = "Write" /\ th[s][t].n = 0)
            => th[s][t].res = "ok"

\* the failures of the connection that the reader and the writer loop see
ConnFailures == {"read error", "write error"}

\* C19: a reader or writer loop that a failure of the connection has sent
\* into Close is never held there for ever, and once it has left, the session
\* is marked closed and every stream in its registry is closed.
C19_FailureClosesSession ==
    \A s \in Sess : \A t \in {"reader", "writer"} :
        /\ ~(th[s][t].res \in ConnFailures /\ ClosePending(s, t) /\ SynPending(s))
        /\ (th[s][t].pc = "exit" /\ th[s][t].res \in ConnFailures) =>
               closed[s] /\ RegistryClosed(s)

\* C20: no thread closes a session because s.write has returned the
\* write-timeout error to it: no Close that marks a session closed was called
\* for that error.
C20_TimeoutKeepsSessionOpen ==
    \A s \in Sess : \A t \in Threads :
        ~(th[s][t].pc = "close2" /\ closeLock[s] = t /\ th[s][t].res = errWriteTimeout)

\* thread t of s is the one whose Close marks s closed in this step
Closes(s, t) == th[s][t].pc # "close2" /\ th'[s][t].pc = "close2"

\* C21: a session is open when Server or Client returns it, the server's with
\* isRemoteClient set and the client's without, and it is marked closed only
\* by a Close that a caller made or that the reader or the writer loop made
\* for an error of the connection which is not the clean end of the stream.
C21_OpenUntilCloseOrError ==
    /\ \A s \in Sess : ~closed[s] /\ (isRemoteClient(s) <=> s = "server")
    /\ [][\A s \in Sess :
            (~closed[s] /\ closed'[s]) =>
                \E t \in Threads :
                    /\ Closes(s, t)
                    /\ \/ t \in Tasks
                       \/ t \in {"reader", "writer"} /\ th[s][t].res \in ConnFailures]_vars

\* C22: with the same non-empty key at both ends, what Read has delivered at
\* either end is, byte for byte, the beginning of what was passed to Write at
\* the other end, whatever the order of the Reads and Writes at each end.
C22_XorDuplex ==
    \A e \in Ends : IsPrefix(x.got[e], x.sent[Other(e)])

\* C23: what was written through one wrapper, in any number of Writes, and
\* read through a fresh wrapper with the same key, in any number of Reads,
\* comes out as it went in, and every Write returns the length of its input.
C23_XorRoundTrip ==
    /\ IsPrefix(x.got["far"], x.sent["near"])
    /\ x.pipe["far"] = <<>> => x.got["far"] = x.sent["near"]
    /\ x.wrote["near"] = x.asked["near"]

\* two bytes went through in two Writes of one byte each under a key of two
\* different bytes, and both came out as they went in
C23_Witness ==
    /\ Len(x.key) = 2 /\ x.key[1] # x.key[2]
    /\ Len(x.sent["near"]) = 2
    /\ x.got["far"] = x.sent["near"]
    /\ x.keyPos["near"] = 0 /\ x.keyPos["far"] = 0
    /\ x.wrote["near"] = 1

\* byte sequence w is a concatenation of whole frames: a header, followed by
\* as many payload bytes as its length field says when it is a DATA header
\* and by the next header when it is not
RECURSIVE WholeFrames(_)
WholeFrames(w) ==
    \/ w = <<>>
    \/ /\ Head(w).k = "h"
       /\ Head(w).type # typeData => Head(w).len = 0
       /\ Len(w) >= 1 + Head(w).len
       /\ \A i \in 2..(1 + Head(w).len) : w[i].k = "b"
       /\ WholeFrames(SubSeq(w, 2 + Head(w).len, Len(w)))

\* C24: the bytes written to a connection and not yet read from it are a
\* concatenation of whole frames, whatever the order in which callers and
\* the reader put their frames on writeCh.
C24_WholeFramesOnWire ==
    \A s \in Sess : WholeFrames(wire[s])

\* the server has written, to a connection nobody reads, a SYN, a DATA frame
\* of MaxChunk bytes, a FIN, an ACK and a PONG
C24_Witness ==
    LET w == wire["client"]
        has(type) == \E i \in 1..Len(w) : w[i].k = "h" /\ w[i].type = type
    IN /\ has(typeSYN) /\ has(typeFIN) /\ has(typeACK) /\ has(typePONG)
       /\ \E i \in 1..Len(w) : w[i].k = "h" /\ w[i].type = typeData /\ w[i].len = MaxChunk

\* the reader of s returns from handleSYN having queued the new stream for
\* AcceptStream
SynOffered(s) ==
    /\ th[s]["reader"].op = "handleSYN"
    /\ th[s]["reader"].pc \in {"write", "select"}
    /\ th'[s]["reader"].pc = "loop"
    /\ acceptCh'[s] = Append(acceptCh[s], th[s]["reader"].obj)

\* C25: a stream that handleSYN queues for AcceptStream is registered and
\* open, and its ACK, a header of type ACK with the stream's ID and length 0,
\* has been put on writeCh by the s.write that precedes the offer.
C25_AckBeforeOffer ==
    [][\A s \in Sess :
        SynOffered(s) =>
            LET o == th[s]["reader"].obj
                id == objs[s][o].id
            IN /\ id \in DOMAIN streams'[s] /\ streams'[s][id] = o
               /\ ~objs'[s][o].closed
               /\ writeCh'[s] = Append(writeCh[s], Frame(typeACK, 0, id, <<>>))]_vars

\* the reader of s takes a SYN whose ID is in the registry
DuplicateSyn(s) ==
    /\ th[s]["reader"].pc = "loop"
    /\ wire[s] # <<>>
    /\ Head(wire[s]).type = typeSYN
    /\ Head(wire[s]).id \in DOMAIN streams[s]
    /\ wire'[s] = Tail(wire[s])

\* C26: a SYN for an ID that is already registered changes nothing: the
\* registry, every stream (its closed flag and its buffered bytes) and the
\* accept queue stay as they are, and no ACK is handed to s.write or put on
\* writeCh; the reader is back at the head of its loop.
C26_DuplicateSynIgnored ==
    [][\A s \in Sess :
        DuplicateSyn(s) =>
            /\ streams'[s] = streams[s]
            /\ objs'[s] = objs[s]
            /\ acceptCh'[s] = acceptCh[s]
            /\ writeCh'[s] = writeCh[s]
            /\ th'[s]["reader"] = AtLoop]_vars

\* a SYN was ignored for a stream that an earlier SYN registered and a FIN
\* has closed since
C26_Witness ==
    \E o \in sg["server"].dupSyn :
        /\ g["server"][o].by = "handleSYN"
        /\ objs["server"][o].closed
        /\ th["server"]["reader"].pc = "loop"

\* the reader of s takes a PING header off the connection
PingTaken(s) ==
    /\ th[s]["reader"].pc = "loop"
    /\ wire[s] # <<>>
    /\ Head(wire[s]).type = typePING
    /\ wire'[s] = Tail(wire[s])

\* the reader of s returns from handlePING
PingHandled(s) ==
    /\ th[s]["reader"].op = "handlePING"
    /\ th[s]["reader"].pc \in {"write", "select"}
    /\ th'[s]["reader"].pc = "loop"

\* C27: for a PING the reader builds a PONG header with the PING's flags,
\* stream ID 0 and length 0, and handlePING returns with exactly that header
\* put on writeCh; neither step changes the registry or a stream.
C27_PongForEveryPing ==
    [][\A s \in Sess :
        /\ PingTaken(s) =>
               /\ th'[s]["reader"].frame =
                      Frame(typePONG, Head(wire[s]).flags, 0, <<>>)
               /\ streams'[s] = streams[s] /\ objs'[s] = objs[s]
        /\ PingHandled(s) =>
               /\ writeCh'[s] = Append(writeCh[s], th[s]["reader"].frame)
               /\ streams'[s] = streams[s] /\ objs'[s] = objs[s]]_vars

\* the reader of s takes an ACK header, a PONG header or a header whose type
\* is above every known one
NoopTaken(s) ==
    /\ th[s]["reader"].pc = "loop"
    /\ wire[s] # <<>>
    /\ Head(wire[s]).type \in {typeACK} \cup typePONG..MaxType
    /\ wire'[s] = Tail(wire[s])

\* C28: an ACK, a PONG or a header of a type greater than 5 changes nothing:
\* the registry, every stream, the accept queue, writeCh, the closed flag,
\* the shutdown channels and the connection stay as they are, every caller
\* and loop of the session stays where it was (no waiting Read, AcceptStream
\* or s.write is released), and the reader is at the head of its loop for
\* the next header.
C28_NoopFrames ==
    [][\A s \in Sess :
        NoopTaken(s) =>
            /\ streams'[s] = streams[s]
            /\ objs'[s] = objs[s]
            /\ acceptCh'[s] = acceptCh[s]
            /\ writeCh'[s] = writeCh[s]
            /\ closed'[s] = closed[s]
            /\ shutdown'[s] = shutdown[s]
            /\ connClosed'[s] = connClosed[s]
            /\ th'[s] = th[s]
            /\ th'[s]["reader"] = AtLoop]_vars

\* an ACK, a PONG and a header of type MaxType have all been taken, and the
\* caller waiting in AcceptStream and the one waiting in Read for a byte of
\* a registered stream are waiting still
C28_Witness ==
    /\ sg["server"].noops = {typeACK, typePONG, MaxType}
    /\ wire["server"] = <<>>
    /\ th["server"]["t2"].pc = "accept"
    /\ th["server"]["t1"].pc = "rd_wait"
    /\ ServerFirstID \in DOMAIN streams["server"]
    /\ th["server"]["reader"] = AtLoop

\* C29: the thread that holds streamLock is never in the select of s.write,
\* waiting for room in writeCh or for the ConnectionWriteTimeout timer.
C29_NoLockWhileBlocked ==
    \A s \in Sess : \A t \in Threads :
        streamLock[s] = t => th[s][t].pc # "select"

\* the reader, the writer and the keepalive loop of s have returned (the
\* keepalive loop of a session without EnableKeepAlive was never started)
LoopsExited(s) == \A l \in Loops : th[s][l].pc = "exit"

\* C30: once the client's session is closed, its reader, its writer and its
\* keepalive loop all return in the end.
C30_LoopsExitAfterClose ==
    closed["client"] ~> LoopsExited("client")

\* the buffers of the server's streams
Buffers == {objs["server"][o].readBuf : o \in 1..Len(objs["server"])}

\* the unread bytes of the buffer of stream object o of the server
Unread(o) ==
    SubSeq(objs["server"][o].readBuf.buf,
           objs["server"][o].readBuf.rd + 1, objs["server"][o].readBuf.wr)

\* the bytes written to the buffer of stream object o and not read yet
Outstanding(o) ==
    SubSeq(g["server"][o].app, Len(g["server"][o].recvd) + 1,
           Len(g["server"][o].app))

\* a Read returns from the buffer of stream object o having copied bytes out
ReadReturns(o) ==
    Len(g'["server"][o].recvd) > Len(g["server"][o].recvd)

\* C31: the cursors of a buffer satisfy 0 <= rd <= wr <= len(b.buf) in every
\* state; a Read that takes the last unread byte leaves both cursors at 0;
\* and a Write, growing the storage or not, keeps the unread bytes in their
\* order and puts what it writes behind them.
C31_BufferCursors ==
    /\ [](\A b \in Buffers : 0 <= b.rd /\ b.rd <= b.wr /\ b.wr <= b.len)
    /\ [][\A o \in 1..Len(objs["server"]) :
            LET b == objs["server"][o].readBuf
                c == objs'["server"][o].readBuf
            IN /\ (ReadReturns(o) /\ Len(g'["server"][o].recvd) = Len(g["server"][o].app))
                      => c.rd = 0 /\ c.wr = 0
               /\ Len(g'["server"][o].app) > Len(g["server"][o].app)
                      => /\ IsPrefix(Unread(o), Unread(o)')
                         /\ Unread(o)' = Outstanding(o)'
                         /\ c.rd = b.rd]_vars

\* a Write has grown the storage from 2 * InitialCap on, with bytes of an
\* earlier Write unread in front of it, and a Read has since taken the last
\* unread byte
C31_Witness ==
    \E o \in 1..Len(objs["server"]) :
        /\ objs["server"][o].readBuf.len > 2 * InitialCap
        /\ Len(g["server"][o].recvd) = MaxBufBytes
        /\ objs["server"][o].readBuf.wr = 0

\* a call of buffer.Read on the buffer of stream object o starts
ReadCalled(o) ==
    /\ sg'["server"].last # sg["server"].last
    /\ sg'["server"].last.op = "Read"
    /\ sg'["server"].last.o = o

\* the buffer of stream object o is empty and open
EmptyOpen(o) ==
    /\ objs["server"][o].readBuf.rd >= objs["server"][o].readBuf.wr
    /\ ~objs["server"][o].readBuf.closed

\* task t is inside buffer.Read, on a buffer that holds bytes or is closed
ReadCanReturn(t) ==
    /\ th["server"][t].pc \in {"rd_wait", "rd"}
    /\ ~EmptyOpen(th["server"][t].obj)

\* C32: a buffer.Read that finds the buffer empty and open goes to wait and
\* stays waiting while it is so; a Read that returns bytes returns the
\* min(len(p), unread) >= 1 oldest unread bytes in order; and a Read that
\* waits returns once a Write has put bytes in the buffer or a Close has
\* closed it.
C32_ReadBlocksAndWakes ==
    /\ [][\A o \in 1..Len(objs["server"]) : \A t \in Tasks :
            LET waits == th["server"][t].pc = "rd" /\ th["server"][t].obj = o
                n == IF waits THEN th["server"][t].n ELSE sg'["server"].last.n
            IN /\ (EmptyOpen(o) /\ ReadCalled(o) /\ th'["server"][t] # th["server"][t])
                      => th'["server"][t].pc = "rd_wait"
               /\ (EmptyOpen(o) /\ waits /\ th'["server"][t] # th["server"][t])
                      => th'["server"][t].pc = "rd_wait"
               /\ (ReadReturns(o) /\ (waits \/ ReadCalled(o)))
                      => /\ Len(Outstanding(o)) >= 1
                         /\ g'["server"][o].recvd = g["server"][o].recvd \o
                                SubSeq(Outstanding(o), 1, Min(n, Len(Outstanding(o))))]_vars
    /\ \A t \in Tasks :
           ReadCanReturn(t) ~> th["server"][t].pc = "idle"

\* a Read called on the empty buffer has returned the MinBufWrite bytes of a
\* Write made after the call
C32_Witness ==
    \E o \in 1..Len(objs["server"]) :
        /\ th["server"]["t1"].call = "Read"
        /\ th["server"]["t1"].res = "ok"
        /\ sg["server"].last.op = "Write"
        /\ sg["server"].last.o = o
        /\ sg["server"].last.n = MinBufWrite
        /\ g["server"][o].recvd = g["server"][o].app
        /\ Len(g["server"][o].recvd) = MinBufWrite

\* a call of op on the buffer of stream object o is made
BufCalled(op, o) ==
    /\ sg'["server"].last # sg["server"].last
    /\ sg'["server"].last.op = op
    /\ sg'["server"].last.o = o

SynProcessed(s, id) ==
    \E o \in 1..Len(objs[s]) :
        objs[s][o].id = id /\ g[s][o].by = "handleSYN"

\* in the bytes w, a SYN header for id stands before position i
SynBefore(w, i, id) ==
    \E j \in 1..(i - 1) :
        w[j].k = "h" /\ w[j].type = typeSYN /\ w[j].id = id

\* what the server has handed to s.write and the client's reader has not
\* taken yet: the bytes on the connection, then the frames on writeCh
ServerUnderWay == wire["client"] \o Flat(writeCh["server"])

\* C34: OpenStream returns a stream only with the stream's SYN put on
\* writeCh by that call; every DATA and FIN header of a stream on its way to
\* the client has the stream's SYN in front of it, unless the client's reader
\* has taken that SYN already; and the client's reader takes a DATA header
\* only for a stream whose SYN it has taken.
C34_SynFirst ==
    /\ [](\A i \in 1..Len(ServerUnderWay) :
             LET c == ServerUnderWay[i]
             IN (c.k = "h" /\ c.type \in {typeData, typeFIN}) =>
                    \/ SynProcessed("client", c.id)
                    \/ SynBefore(ServerUnderWay, i, c.id))
    /\ [][\A t \in Tasks :
            (/\ th["server"][t].op = "OpenStream"
             /\ th["server"][t].pc \in {"write", "select"}
             /\ th'["server"][t].pc = "idle"
             /\ th'["server"][t].res = "ok")
                => /\ writeCh'["server"] =
                          Append(writeCh["server"],
                                 Frame(typeSYN, 0,
                                       objs["server"][th["server"][t].obj].id, <<>>))
                   /\ handles'["server"] =
                          handles["server"] \cup {th["server"][t].obj}]_vars
    /\ [][(/\ th["client"]["reader"].pc = "loop"
           /\ wire["client"] # <<>>
           /\ Head(wire["client"]).type = typeData
           /\ Len(wire'["client"]) < Len(wire["client"]))
              => SynProcessed("client", Head(wire["client"]).id)]_vars

\* the client's reader has taken the SYN of a stream, then bytes and the FIN
\* of it, while a second stream's SYN is still on its way in front of a DATA
\* frame of that stream
C34_Witness ==
    /\ \E o \in 1..Len(objs["client"]) :
           /\ g["client"][o].by = "handleSYN"
           /\ g["client"][o].app # <<>>
           /\ g["client"][o].finProc
    /\ \E i \in 1..Len(ServerUnderWay) :
           /\ ServerUnderWay[i].k = "h"
           /\ ServerUnderWay[i].type = typeData
           /\ ~SynProcessed("client", ServerUnderWay[i].id)

\* task t of s returns from OpenStream with the error of s.write
OpenFails(s, t) ==
    /\ th[s][t].op = "OpenStream"
    /\ th[s][t].pc \in {"write", "select"}
    /\ th'[s][t].pc = "idle"
    /\ th'[s][t].res # "ok"

\* C35: an OpenStream whose s.write(SYN) fails returns no stream, with the
\* write timeout or the session-closed error; nextStreamID stays beyond the
\* ID it took and its stream stays registered under that ID, then and from
\* then on, without the caller ever holding it.
C35_FailedOpenLeavesStream ==
    /\ [][\A s \in Sess : \A t \in Tasks :
            OpenFails(s, t) =>
                LET o == th[s][t].obj
                    id == objs[s][o].id
                IN /\ th'[s][t].res \in {errWriteTimeout, errSessionClosed}
                   /\ handles'[s] = handles[s]
                   /\ nextStreamID'[s] = nextStreamID[s]
                   /\ nextStreamID'[s] > id
                   /\ id \in DOMAIN streams'[s] /\ streams'[s][id] = o]_vars
    /\ [](\A s \in Sess : \A o \in 1..Len(objs[s]) :
            (g[s][o].by = "OpenStream" /\ g[s][o].via = "none") =>
                /\ o \notin handles[s]
                /\ objs[s][o].id \in DOMAIN streams[s]
                /\ streams[s][objs[s][o].id] = o
                /\ nextStreamID[s] > objs[s][o].id)

\* an OpenStream of the open server has returned "write timeout", and the
\* stream it registered is in the registry and in no caller's hands
C35_Witness ==
    /\ ~closed["server"]
    /\ \E t \in Tasks :
           th["server"][t] = Done("OpenStream", errWriteTimeout)
    /\ \E id \in DOMAIN streams["server"] :
           streams["server"][id] \notin handles["server"]

\* C36: when handleSYN drops a stream because the accept queue is full, the
\* s.write before the drop has put the stream's ACK on writeCh, and the ID is
\* out of the registry, so that handleData discards what comes for it.
C36_AckBeforeDrop ==
    [][\A s \in Sess :
        SynDropped(s) =>
            LET id == objs[s][th[s]["reader"].obj].id
            IN /\ writeCh'[s] = Append(writeCh[s], Frame(typeACK, 0, id, <<>>))
               /\ id \notin DOMAIN streams'[s]]_vars

\* the writer of s has returned
WriterGone(s) == th[s]["writer"].pc = "exit"

\* in this step nothing is written to the connection of s towards its peer:
\* what is there is what was there, less what the peer's reader took
NothingWritten(s) ==
    /\ Len(wire'[Peer(s)]) <= Len(wire[Peer(s)])
    /\ wire'[Peer(s)] =
           SubSeq(wire[Peer(s)],
                  Len(wire[Peer(s)]) - Len(wire'[Peer(s)]) + 1,
                  Len(wire[Peer(s)]))

\* C37: the writer leaves its loop on shutdown without taking what is on
\* writeCh, and once it has returned nothing is taken from writeCh or
\* written to the connection any more: a frame that s.write has queued for a
\* call that returned nil stays where it is.
C37_QueuedFramesLeft ==
    [][\A s \in Sess :
        /\ (~WriterGone(s) /\ WriterGone(s)') =>
               writeCh'[s] = writeCh[s] /\ NothingWritten(s)
        /\ WriterGone(s) =>
               /\ WriterGone(s)'
               /\ NothingWritten(s)
               /\ Len(writeCh'[s]) >= Len(writeCh[s])
               /\ SubSeq(writeCh'[s], 1, Len(writeCh[s])) = writeCh[s]]_vars

\* the server is closed and its writer has returned, and the SYN of a stream
\* that OpenStream returned to its caller is still on writeCh
C37_Witness ==
    /\ closed["server"]
    /\ WriterGone("server")
    /\ \E o \in handles["server"] :
           /\ g["server"][o].via = "open"
           /\ writeCh["server"] =
                  <<Frame(typeSYN, 0, objs["server"][o].id, <<>>)>>

\* C38: a turn of the reader loop on a header of any type but DATA takes
\* exactly the headerSize bytes of the header, whatever its length field
\* says; the bytes behind it stay on the connection and the next turn
\* decodes the first headerSize of them as a header.
C38_LengthIgnored ==
    [][(conn # NoConn /\ conn'.seen # conn.seen) =>
          LET h == decodeHeader(SubSeq(conn.in, 1, headerSize))
              k == Len(conn'.seen)
          IN /\ conn'.seen = Append(conn.seen, conn'.seen[k])
             /\ conn'.seen[k].h = h
             /\ h.type # typeData =>
                    /\ conn'.seen[k].took = headerSize
                    /\ conn'.in = SubSeq(conn.in, headerSize + 1, Len(conn.in))]_vars

\* the peer has written one frame, a FIN header with length headerSize and
\* headerSize bytes behind it, and the reader loop has taken two headers
\* from it: the FIN and, out of the bytes behind it, a SYN for stream
\* MaxRawID
C38_Witness ==
    /\ conn # NoConn
    /\ conn.sent = 1
    /\ conn.in = <<>>
    /\ Len(conn.seen) = 2
    /\ conn.seen[1].h.type = typeFIN
    /\ conn.seen[1].h.len = headerSize
    /\ conn.seen[2].h = [type |-> typeSYN, flags |-> 0, id |-> MaxRawID, len |-> 0]

\* stream object o of s was handed to the accept queue
Offered(s, o) ==
    \/ \E i \in 1..Len(acceptCh[s]) : acceptCh[s][i] = o
    \/ g[s][o].via = "accept"

\* C39: a stream that OpenStream registered or that handleSYN queued for
\* AcceptStream is in the registry under its ID ever after, whatever FIN,
\* Stream.Close or Close has closed it.
C39_EntryStays ==
    \A s \in Sess : \A o \in 1..Len(objs[s]) :
        (g[s][o].by = "OpenStream" \/ Offered(s, o)) =>
            /\ objs[s][o].id \in DOMAIN streams[s]
            /\ streams[s][objs[s][o].id] = o

\* stream o of the server is closed by Stream.Close only: s.closed is set and
\* the buffer is open
LocallyClosed(o) ==
    objs["server"][o].closed /\ ~objs["server"][o].readBuf.closed

\* the unread bytes in the buffer of stream o of the server
Buffered(o) ==
    SubSeq(objs["server"][o].readBuf.buf, objs["server"][o].readBuf.rd + 1,
           objs["server"][o].readBuf.wr)

\* this step is the "s.closed = true" of a Stream.Close on stream o
MarksClosed(o) ==
    \E t \in Tasks : /\ th["server"][t].pc = "sc_set"
                     /\ th["server"][t].obj = o
                     /\ th'["server"][t].pc # "sc_set"

\* the payload of the DATA frame at the head of the server's connection
ArrivingData ==
    [i \in 1..Head(wire["server"]).len |-> wire["server"][i + 1].v]

\* this step is handleData taking a DATA frame for stream o
DataArrives(o) ==
    /\ wire["server"] # <<>>
    /\ Head(wire["server"]).type = typeData
    /\ Head(wire["server"]).id \in DOMAIN streams["server"]
    /\ streams["server"][Head(wire["server"]).id] = o
    /\ Len(wire'["server"]) < Len(wire["server"])

\* this step is task t calling Stream.Read
ReadIssued(t) ==
    /\ th["server"][t].pc = "idle"
    /\ th'["server"][t] # th["server"][t]
    /\ th'["server"][t].call = "Read" \/ th'["server"][t].pc = "rd_wait"

\* C40: Stream.Close sets the closed mark of the stream and leaves its buffer
\* as it is, open; a DATA frame that arrives afterwards for the stream is
\* appended to the unread bytes of its buffer; a Read called after the mark
\* is set takes no byte out of that buffer and does not wait on it, and
\* when every stream the caller holds is so marked it returns end-of-stream.
C40_LocalCloseKeepsBuffer ==
    [][\A o \in 1..Len(objs["server"]) :
          /\ MarksClosed(o) =>
                /\ objs'["server"][o].closed
                /\ objs'["server"][o].readBuf = objs["server"][o].readBuf
          /\ (LocallyClosed(o) /\ DataArrives(o)) =>
                /\ LocallyClosed(o)'
                /\ Buffered(o)' = Buffered(o) \o ArrivingData
          /\ \A t \in Tasks :
                (objs["server"][o].closed /\ ReadIssued(t)) =>
                    /\ g'["server"][o].recvd = g["server"][o].recvd
                    /\ objs'["server"][o].readBuf = objs["server"][o].readBuf
                    /\ ~(th'["server"][t].pc = "rd_wait" /\ th'["server"][t].obj = o)
                    /\ (\A o2 \in handles["server"] : objs["server"][o2].closed)
                          => th'["server"][t] = Done("Read", "EOF")]_vars

\* Stream.Close has closed the one stream of the server, a byte arrived for
\* it afterwards and is in its open buffer, and a Read called then has
\* returned end-of-stream: the byte is still unread
C40_Witness ==
    /\ handles["server"] = {1}
    /\ LocallyClosed(1)
    /\ 1 \in sg["server"].lateData
    /\ 1 \in sg["server"].eofOver
    /\ g["server"][1].recvd = <<>>
    /\ Buffered(1) = g["server"][1].app
    /\ Len(Buffered(1)) >= 1
    /\ \E t \in Tasks : th["server"][t] = Done("Read", "EOF")

====
